---- MODULE Spec2Model ----
(***************************************************************************)
(* A model of the DDS validation engine (src/dds): the vocabulary types,   *)
(* the normative interaction decision table (normative.py), the Domain     *)
(* Language Graph (domain_language_graph.py), closure checking             *)
(* (domain_language.py) and the admissibility / rule evaluation pipeline   *)
(* (validation.py).                                                        *)
(*                                                                         *)
(* Python values of different types are modelled as records carrying a     *)
(* "kind" field, so that values of different types are comparable and      *)
(* never equal.  Object identity (the `is` operator) is modelled by an     *)
(* explicit id field.                                                      *)
(***************************************************************************)
EXTENDS Integers, Sequences, FiniteSets, TLC

VARIABLES
    rule_a,      \* first argument of check_interaction
    rule_b,      \* second argument of check_interaction
    diag,        \* value returned by check_interaction, NotRun before the call
    languages,   \* DomainLanguageGraph.languages: the languages, in insertion order
    edges,       \* DomainLanguageGraph.edges: the import edges, in insertion order
    world,       \* the SemanticWorld: its elements and relations, in insertion order
    invoked,     \* the conditions and predicates the last call invoked, in order
    call,        \* the operation called last
    ret          \* what that call returned or raised

interactVars == <<rule_a, rule_b, diag>>

graphVars == <<languages, edges>>

vars == <<rule_a, rule_b, diag, languages, edges, world, invoked, call, ret>>

(***************************************************************************)
(* Python values                                                           *)
(***************************************************************************)
None == [kind |-> "None"]

NotRun == [kind |-> "NotRun"]

UNKNOWN == [kind |-> "UNKNOWN"]

PyBool(b) == [kind |-> "bool", v |-> b]

PyStr(s) == [kind |-> "str", v |-> s]

PyList(q) == [kind |-> "list", v |-> q]

\* a dict, held as the list of its values in insertion order
PyDict(q) == [kind |-> "dict", v |-> q]

\* an exception raised by a call instead of a return value
Raised(e) == [kind |-> "Raised", exception |-> e]

\* the operation called last and its arguments
Call(op, args) == [op |-> op, args |-> args]

NoCall == Call("none", <<>>)

\* a callable, identified by what it does when it is called on the world
Callable(o) == [kind |-> "Callable", outcome |-> o]

(***************************************************************************)
(* types.py: vocabulary elements, equal iff same class and equal fields    *)
(***************************************************************************)
Optionality == {"required", "optional", "unknown_admissible"}

EntityType(n) == [kind |-> "EntityType", name |-> n]

\* value_type is the name of the Python type, "None" when none is given; it
\* is compared and hashed like the other fields
Attribute(n, e, value_type, opt) ==
    [kind |-> "Attribute", name |-> n, entity |-> e, value_type |-> value_type,
     optionality |-> opt]

OperationType(n) == [kind |-> "OperationType", name |-> n]

Relation(n, s, t) == [kind |-> "Relation", name |-> n, source |-> s, target |-> t]

\* condition is excluded from comparison (compare=False)
NormativeTarget(el, cond, desc) ==
    [element |-> el, condition |-> cond, description |-> desc]

(***************************************************************************)
(* normative.py                                                            *)
(***************************************************************************)
NormativeOp == {"MUST", "MUST_NOT", "SHOULD", "SHOULD_NOT", "MAY"}

FindingType == {"CONFLICT", "EXCEPTION", "OVERRIDE", "OVERLAP", "AMBIGUITY", "NO_DEFAULT"}

Severity == {"ERROR", "WARNING", "INFO"}

\* override_ref holds the id of the referenced rule object, NoRef for None
NoRef == 0

NormativeRule(i, op, tgt, ovr) ==
    [id |-> i, operator |-> op, target |-> tgt, override_ref |-> ovr]

FINDING_SEVERITY ==
    [f \in FindingType |->
        CASE f = "CONFLICT" -> "ERROR"
          [] f = "EXCEPTION" -> "INFO"
          [] f = "OVERRIDE" -> "INFO"
          [] f = "OVERLAP" -> "INFO"
          [] f = "AMBIGUITY" -> "WARNING"
          [] f = "NO_DEFAULT" -> "WARNING"]

InteractionDiagnostic(sev, ft, a, b, msg) ==
    [kind |-> "InteractionDiagnostic", severity |-> sev, finding_type |-> ft,
     rule_a |-> a, rule_b |-> b, message |-> msg]

COMPATIBLE_PAIRS_NoMustMay ==
    { {"MUST"}, {"MUST", "SHOULD"}, {"SHOULD"}, {"SHOULD", "MAY"}, {"MAY"},
      {"MUST_NOT"}, {"MUST_NOT", "SHOULD_NOT"}, {"SHOULD_NOT"} }

COMPATIBLE_PAIRS ==
    { {"MUST"}, {"MUST", "SHOULD"}, {"MUST", "MAY"}, {"SHOULD"},
      {"SHOULD", "MAY"}, {"MAY"}, {"MUST_NOT"}, {"MUST_NOT", "SHOULD_NOT"},
      {"SHOULD_NOT"} }

\* the table without its last entry
CONFLICTING_PAIRS_FiveListed ==
    { <<{"MUST", "MUST_NOT"}, "Requiring and prohibiting the same element">>,
      <<{"MUST", "SHOULD_NOT"}, "Obligating a discouraged element">>,
      <<{"SHOULD", "MUST_NOT"}, "Recommending a prohibited element">>,
      <<{"SHOULD", "SHOULD_NOT"}, "Recommending and discouraging the same element">>,
      <<{"MAY", "MUST_NOT"}, "Permitting a prohibited element">> }

CONFLICTING_PAIRS ==
    { <<{"MUST", "MUST_NOT"}, "Requiring and prohibiting the same element">>,
      <<{"MUST", "SHOULD_NOT"}, "Obligating a discouraged element">>,
      <<{"SHOULD", "MUST_NOT"}, "Recommending a prohibited element">>,
      <<{"SHOULD", "SHOULD_NOT"}, "Recommending and discouraging the same element">>,
      <<{"MAY", "MUST_NOT"}, "Permitting a prohibited element">>,
      <<{"MAY", "SHOULD_NOT"}, "Permitting a discouraged element">> }

is_compatible_pair(a, b) == {a, b} \in COMPATIBLE_PAIRS \/ a = b

\* the whole targets compared, condition and description included
same_target_WholeTarget(a, b) == a.target = b.target

same_target(a, b) == a.target.element = b.target.element

\* _CONFLICTING_PAIRS.get(ops, "Conflicting modalities")
conflict_reason(ops) ==
    IF \E p \in CONFLICTING_PAIRS : p[1] = ops
    THEN (CHOOSE p \in CONFLICTING_PAIRS : p[1] = ops)[2]
    ELSE "Conflicting modalities"

is_conditional(r) == r.target.condition # None

\* the pair (specific, general) of step B
lex_specialis_Swapped(a, b) == IF is_conditional(a) THEN <<b, a>> ELSE <<a, b>>

lex_specialis(a, b) == IF is_conditional(a) THEN <<a, b>> ELSE <<b, a>>

\* (a.override_ref is not None and a.override_ref is b) or (b... is a)
names_override_AnyRef(a, b) == a.override_ref # NoRef \/ b.override_ref # NoRef

\* only the first rule's override_ref is looked at
names_override_FirstOnly(a, b) == a.override_ref # NoRef /\ a.override_ref = b.id

names_override(a, b) ==
    \/ (a.override_ref # NoRef /\ a.override_ref = b.id)
    \/ (b.override_ref # NoRef /\ b.override_ref = a.id)

\* step C for two conditional rules: OVERRIDE, else AMBIGUITY
step_C_Conflict(a, b) ==
    IF names_override(a, b)
    THEN InteractionDiagnostic("INFO", "OVERRIDE", a, b,
            <<"Override", a.target.element>>)
    ELSE InteractionDiagnostic("ERROR", "CONFLICT", a, b,
            <<"Conflict", conflict_reason({a.operator, b.operator}), a.target.element>>)

step_C(a, b) ==
    IF names_override(a, b)
    THEN InteractionDiagnostic("INFO", "OVERRIDE", a, b,
            <<"Override", a.target.element>>)
    ELSE InteractionDiagnostic("WARNING", "AMBIGUITY", a, b,
            <<"Ambiguity", a.operator, b.operator, a.target.element>>)

\* step D for two unconditional rules: OVERRIDE, else CONFLICT
step_D_Warning(a, b) ==
    IF names_override(a, b)
    THEN InteractionDiagnostic("INFO", "OVERRIDE", a, b,
            <<"Override", a.target.element>>)
    ELSE InteractionDiagnostic("WARNING", "CONFLICT", a, b,
            <<"Conflict", conflict_reason({a.operator, b.operator}), a.target.element>>)

step_D(a, b) ==
    IF names_override(a, b)
    THEN InteractionDiagnostic("INFO", "OVERRIDE", a, b,
            <<"Override", a.target.element>>)
    ELSE InteractionDiagnostic("ERROR", "CONFLICT", a, b,
            <<"Conflict", conflict_reason({a.operator, b.operator}), a.target.element>>)

check_interaction(a, b) ==
    IF ~same_target(a, b) THEN None
    ELSE IF is_compatible_pair(a.operator, b.operator)
    THEN InteractionDiagnostic("INFO", "OVERLAP", a, b,
            <<"Overlap", a.operator, b.operator, a.target.element>>)
    ELSE IF is_conditional(a) # is_conditional(b)
    THEN InteractionDiagnostic("INFO", "EXCEPTION",
            lex_specialis(a, b)[1], lex_specialis(a, b)[2],
            <<"Exception", lex_specialis(a, b)[1].operator,
              lex_specialis(a, b)[2].operator, a.target.element>>)
    ELSE IF is_conditional(a) /\ is_conditional(b)
    THEN step_C(a, b)
    ELSE step_D(a, b)

(***************************************************************************)
(* Inputs of the interaction check: two rule objects.  Rule objects are    *)
(* immutable (frozen dataclass), so an override_ref can only name a rule   *)
(* object created earlier: ids are creation order.                         *)
(***************************************************************************)
MaxRuleObjs == 3

RuleIds == 1 .. MaxRuleObjs

\* an entity type and two attributes of it that differ in value_type only
InteractElements ==
    { EntityType("Thing"),
      Attribute("x", EntityType("Thing"), "bool", "required"),
      Attribute("x", EntityType("Thing"), "str", "required") }

InteractConditions == { None, Callable(PyBool(FALSE)), Callable(PyBool(TRUE)) }

InteractRules ==
    { NormativeRule(i, op, NormativeTarget(el, c, ""), ovr) :
        i \in RuleIds, op \in NormativeOp, el \in InteractElements,
        c \in InteractConditions, ovr \in {NoRef} \cup RuleIds }

\* two arguments are the same object iff they carry the same id
WellFormedPair(a, b) ==
    /\ a.override_ref < a.id
    /\ b.override_ref < b.id
    /\ (a.id = b.id => a = b)

InitInteract ==
    /\ rule_a \in InteractRules
    /\ rule_b \in InteractRules
    /\ WellFormedPair(rule_a, rule_b)
    /\ diag = NotRun
    /\ languages = <<>>
    /\ edges = <<>>
    /\ world = [elements |-> <<>>, relations |-> <<>>]
    /\ invoked = <<>>
    /\ call = NoCall
    /\ ret = None

CheckInteraction ==
    /\ diag = NotRun
    /\ diag' = check_interaction(rule_a, rule_b)
    /\ UNCHANGED <<languages, edges, world, invoked, call, ret>>
    /\ UNCHANGED <<rule_a, rule_b>>

NextInteract == CheckInteraction

SpecInteract == InitInteract /\ [][NextInteract]_vars

(***************************************************************************)
(* Claims about check_interaction, checked under SpecInteract              *)
(***************************************************************************)
Called == diag # NotRun

IsFinding(d, ft, sev) ==
    /\ d.kind = "InteractionDiagnostic"
    /\ d.finding_type = ft
    /\ d.severity = sev

\* the compatible pairs and the conflicting pairs as the specification lists them
StatedCompatible ==
    { {"MUST", "SHOULD"}, {"MUST", "MAY"}, {"SHOULD", "MAY"},
      {"MUST_NOT", "SHOULD_NOT"} } \cup { {o} : o \in NormativeOp }

StatedConflicting ==
    { {"MUST", "MUST_NOT"}, {"MUST", "SHOULD_NOT"}, {"SHOULD", "MUST_NOT"},
      {"SHOULD", "SHOULD_NOT"}, {"MAY", "MUST_NOT"}, {"MAY", "SHOULD_NOT"} }

SameElement == rule_a.target.element = rule_b.target.element

PairOps == {rule_a.operator, rule_b.operator}

CondA == rule_a.target.condition # None

CondB == rule_b.target.condition # None

\* one of the two rules has the other rule object as its override reference
NamesOther ==
    \/ (rule_a.override_ref # NoRef /\ rule_a.override_ref = rule_b.id)
    \/ (rule_b.override_ref # NoRef /\ rule_b.override_ref = rule_a.id)

\* C5: two rules on the same target element whose operators form a compatible
\* pair yield OVERLAP with severity INFO, whatever their conditions and
\* override references are.
C5_CompatibleYieldsOverlap ==
    (Called /\ SameElement /\ PairOps \in StatedCompatible)
        => IsFinding(diag, "OVERLAP", "INFO")

C5_Witness ==
    /\ Called /\ SameElement
    /\ rule_a.operator = "MUST" /\ rule_b.operator = "MAY"
    /\ CondA /\ ~CondB
    /\ rule_b.override_ref = rule_a.id
    /\ IsFinding(diag, "OVERLAP", "INFO")

\* C6: for each of the six conflicting operator pairs, in either argument
\* order, two unconditional rules on the same target element, neither naming
\* the other as overridden, yield CONFLICT with severity ERROR.
C6_UnconditionalConflict ==
    (Called /\ SameElement /\ PairOps \in StatedConflicting
        /\ ~CondA /\ ~CondB /\ ~NamesOther)
        => IsFinding(diag, "CONFLICT", "ERROR")

C6_Witness ==
    /\ Called /\ SameElement
    /\ rule_a.operator = "SHOULD_NOT" /\ rule_b.operator = "MAY"
    /\ ~CondA /\ ~CondB
    /\ rule_a.override_ref # NoRef /\ ~NamesOther
    /\ IsFinding(diag, "CONFLICT", "ERROR")

\* C7: for a conflicting pair on the same target element where exactly one
\* rule carries a condition, the finding is EXCEPTION with severity INFO in
\* both argument orders, its rule_a is the conditional rule and its rule_b
\* the unconditional one, even when one rule names the other as overridden.
C7_LexSpecialis ==
    (Called /\ SameElement /\ PairOps \in StatedConflicting /\ CondA # CondB)
        => /\ IsFinding(diag, "EXCEPTION", "INFO")
           /\ diag.rule_a = (IF CondA THEN rule_a ELSE rule_b)
           /\ diag.rule_b = (IF CondA THEN rule_b ELSE rule_a)
           /\ diag.rule_a.target.condition # None
           /\ diag.rule_b.target.condition = None

C7_Witness ==
    /\ Called /\ SameElement /\ PairOps \in StatedConflicting
    /\ ~CondA /\ CondB /\ NamesOther
    /\ IsFinding(diag, "EXCEPTION", "INFO")
    /\ diag.rule_a = rule_b

\* C8: for a conflicting pair on the same target element at equal
\* specificity, the finding is OVERRIDE with severity INFO exactly when one
\* of the two rules has the other rule itself as its override reference; a
\* reference to a third rule does not count.
C8_OverrideIffNamesOther ==
    (Called /\ SameElement /\ PairOps \in StatedConflicting /\ CondA = CondB)
        => /\ NamesOther => IsFinding(diag, "OVERRIDE", "INFO")
           /\ ~NamesOther => /\ diag.kind = "InteractionDiagnostic"
                             /\ diag.finding_type # "OVERRIDE"

C8_Witness ==
    /\ Called /\ SameElement /\ PairOps \in StatedConflicting
    /\ CondA /\ CondB
    /\ rule_b.override_ref = rule_a.id
    /\ IsFinding(diag, "OVERRIDE", "INFO")

\* C9: for a conflicting pair on the same target element where both rules
\* are conditional and neither names the other as overridden, the finding
\* is AMBIGUITY with severity WARNING, whatever the two conditions are.
C9_BothConditionalAmbiguity ==
    (Called /\ SameElement /\ PairOps \in StatedConflicting
        /\ CondA /\ CondB /\ ~NamesOther)
        => IsFinding(diag, "AMBIGUITY", "WARNING")

C9_Witness ==
    /\ Called /\ SameElement /\ PairOps \in StatedConflicting
    /\ CondA /\ CondB /\ rule_a.target.condition # rule_b.target.condition
    /\ rule_b.override_ref # NoRef /\ ~NamesOther
    /\ IsFinding(diag, "AMBIGUITY", "WARNING")

\* the kind and the severity of a finding
KindAndSeverity(d) == <<d.finding_type, d.severity>>

\* C28: on two rules with equal target elements check_interaction returns a
\* finding, never None; its kind is OVERLAP, EXCEPTION, OVERRIDE, AMBIGUITY
\* or CONFLICT, never NO_DEFAULT; CONFLICT has severity ERROR, AMBIGUITY
\* WARNING and the other three INFO; the call with the two rules exchanged
\* returns a finding of the same kind and severity.
C28_OneFindingSymmetric ==
    (Called /\ SameElement) =>
        /\ diag.kind = "InteractionDiagnostic"
        /\ diag.finding_type \in {"OVERLAP", "EXCEPTION", "OVERRIDE", "AMBIGUITY", "CONFLICT"}
        /\ diag.severity = CASE diag.finding_type = "CONFLICT" -> "ERROR"
                             [] diag.finding_type = "AMBIGUITY" -> "WARNING"
                             [] OTHER -> "INFO"
        /\ check_interaction(rule_b, rule_a).kind = "InteractionDiagnostic"
        /\ KindAndSeverity(check_interaction(rule_b, rule_a)) = KindAndSeverity(diag)

\* the second rule names the first as the one it overrides: OVERRIDE in
\* both argument orders
C28_Witness ==
    /\ Called /\ SameElement
    /\ PairOps \in StatedConflicting
    /\ CondA = CondB
    /\ rule_b.override_ref = rule_a.id /\ rule_a.override_ref = NoRef
    /\ rule_a.id # rule_b.id
    /\ IsFinding(diag, "OVERRIDE", "INFO")
    /\ IsFinding(check_interaction(rule_b, rule_a), "OVERRIDE", "INFO")

\* the unordered pairs of operators, an operator with itself included
OperatorPairs == { {a, b} : a, b \in NormativeOp }

\* the pairs is_compatible_pair accepts, and the keys of the conflict table
CompatibleOperatorPairs ==
    { {a, b} : <<a, b>> \in { q \in NormativeOp \X NormativeOp : is_compatible_pair(q[1], q[2]) } }

ConflictKeys == { p[1] : p \in CONFLICTING_PAIRS }

\* C29: the 15 unordered operator pairs are split in two by the tables: a
\* pair is compatible or is one of the six keys of the conflict table,
\* never both and never neither; so the reason of a CONFLICT finding is
\* always one the table lists, never the fallback "Conflicting modalities".
C29_TablesPartitionPairs ==
    /\ Cardinality(OperatorPairs) = 15
    /\ Cardinality(ConflictKeys) = 6
    /\ ConflictKeys \subseteq OperatorPairs
    /\ CompatibleOperatorPairs \cap ConflictKeys = {}
    /\ CompatibleOperatorPairs \cup ConflictKeys = OperatorPairs
    /\ \A a, b \in NormativeOp : is_compatible_pair(a, b) = is_compatible_pair(b, a)
    /\ (Called /\ diag.kind = "InteractionDiagnostic" /\ diag.finding_type = "CONFLICT")
            => /\ diag.message[2] # "Conflicting modalities"
               /\ <<PairOps, diag.message[2]>> \in CONFLICTING_PAIRS

\* a CONFLICT on the last pair of the table, with the reason the table gives
C29_Witness ==
    /\ Called
    /\ PairOps = {"MAY", "SHOULD_NOT"}
    /\ IsFinding(diag, "CONFLICT", "ERROR")
    /\ diag.message[2] = "Permitting a discouraged element"

(***************************************************************************)
(* domain_language.py: the DomainLanguage record                           *)
(***************************************************************************)
\* attributes (a dict from entity to the list of its attributes) is held as
\* the set of Attribute records, each of which names its entity
DomainLanguage(n) ==
    [name |-> n, entities |-> {}, attributes |-> {}, operations |-> {},
     normative_rules |-> <<>>, constraints |-> <<>>, imports |-> {},
     relations |-> {}]

ImportDecl(n) == [kind |-> "ImportDecl", target_name |-> n]

Range(q) == { q[i] : i \in DOMAIN q }

\* Vocab(DomL) = E u range(A) u O
vocab(lang) == lang.entities \cup lang.attributes \cup lang.operations

\* d.get(name) on the list of the values of a dict from name to language
dict_get(langs, n) ==
    IF \E i \in DOMAIN langs : langs[i].name = n
    THEN langs[CHOOSE i \in DOMAIN langs : langs[i].name = n]
    ELSE None

RECURSIVE closure_imports(_, _, _)

\* the loop over self.imports, in the order the set is iterated;
\* acc = [errors, extended_vocab]
closure_imports(resolved_imports, imps, acc) ==
    IF imps = <<>> THEN acc
    ELSE LET imp == Head(imps)
             imported == dict_get(resolved_imports.v, imp.target_name)
         IN closure_imports(resolved_imports, Tail(imps),
                IF imported = None
                THEN [acc EXCEPT !.errors = Append(@,
                        [kind |-> "UnresolvedImport", target_name |-> imp.target_name])]
                ELSE [acc EXCEPT !.extended_vocab = @ \cup vocab(imported)])

\* the unknown-element errors of the rules, in rule order
rule_errors(rules, all_elements) ==
    LET bad == SelectSeq(rules, LAMBDA r : r.target.element \notin all_elements)
    IN [i \in DOMAIN bad |->
            [kind |-> "UnknownElement", rule |-> bad[i],
             element |-> bad[i].target.element]]

\* resolved_imports is None or the dict of languages; import_order is the
\* order in which the set self.imports is iterated
check_closure(self, resolved_imports, import_order) ==
    LET start == [errors |-> <<>>, extended_vocab |-> vocab(self)]
        acc == IF resolved_imports # None
               THEN closure_imports(resolved_imports, import_order, start)
               ELSE start
        all_elements == acc.extended_vocab \cup self.relations
    IN acc.errors \o rule_errors(self.normative_rules, all_elements)

(***************************************************************************)
(* domain_language_graph.py                                                *)
(***************************************************************************)
\* the language names of the model, in the order Python sorts strings
LangNameSeq == <<"A", "B", "C">>

LangNames == { LangNameSeq[i] : i \in DOMAIN LangNameSeq }

\* a < b on names
str_lt(a, b) ==
    (CHOOSE i \in DOMAIN LangNameSeq : LangNameSeq[i] = a)
        < (CHOOSE i \in DOMAIN LangNameSeq : LangNameSeq[i] = b)

DomLGEdge(s, t) ==
    [kind |-> "DomLGEdge", source |-> s, target |-> t, label |-> "imports"]

\* the keys of the languages dict, in insertion order
language_names(langs) == [i \in DOMAIN langs |-> langs[i].name]

\* adj[n]: the targets of the edges leaving n, in edge order
adj(es, n) ==
    LET out == SelectSeq(es, LAMBDA e : e.source = n)
    IN [i \in DOMAIN out |-> out[i].target]

WHITE == 0

GRAY == 1

BLACK == 2

\* the whole path is taken as the cycle
index_Start(path, n) == 1

\* path.index(n)
index(path, n) == CHOOSE i \in DOMAIN path :
    path[i] = n /\ \A j \in DOMAIN path : path[j] = n => i <= j

RECURSIVE dfs(_, _, _), dfs_neighbors(_, _, _)

\* the loop over adj[node] inside dfs; st = [color, path, cycles]
dfs_neighbors(es, nbs, st) ==
    IF nbs = <<>> THEN st
    ELSE LET neighbor == Head(nbs)
             st1 == IF st.color[neighbor] = GRAY
                    THEN [st EXCEPT !.cycles = Append(@,
                            SubSeq(st.path, index(st.path, neighbor), Len(st.path))
                                \o <<neighbor>>)]
                    ELSE IF st.color[neighbor] = WHITE
                    THEN dfs(es, neighbor, st)
                    ELSE st
         IN dfs_neighbors(es, Tail(nbs), st1)

dfs(es, node, st) ==
    LET entered == [st EXCEPT !.color[node] = GRAY, !.path = Append(@, node)]
        visited == dfs_neighbors(es, adj(es, node), entered)
    IN [visited EXCEPT !.path = SubSeq(@, 1, Len(@) - 1), !.color[node] = BLACK]

\* the traversal starts from the first language only
dfs_roots_FirstOnly(es, nodes, st) ==
    IF nodes = <<>> THEN st ELSE dfs(es, Head(nodes), st)

RECURSIVE dfs_roots(_, _, _)

\* for node in self.languages: if color[node] == WHITE: dfs(node)
dfs_roots(es, nodes, st) ==
    IF nodes = <<>> THEN st
    ELSE dfs_roots(es, Tail(nodes),
            IF st.color[Head(nodes)] = WHITE THEN dfs(es, Head(nodes), st) ELSE st)

\* the list of cycles, each a list of names
detect_import_cycles(langs, es) ==
    dfs_roots(es, language_names(langs),
        [color |-> [n \in Range(language_names(langs)) |-> WHITE],
         path |-> <<>>, cycles |-> <<>>]).cycles

RECURSIVE kahn_neighbors(_, _, _)

\* for neighbor in adj[node]: in_degree[neighbor] -= 1; append when it is 0
kahn_neighbors(nbs, queue, in_degree) ==
    IF nbs = <<>> THEN [queue |-> queue, in_degree |-> in_degree]
    ELSE LET neighbor == Head(nbs)
             deg == [in_degree EXCEPT ![neighbor] = @ - 1]
         IN kahn_neighbors(Tail(nbs),
                IF deg[neighbor] = 0 THEN Append(queue, neighbor) ELSE queue,
                deg)

RECURSIVE kahn(_, _, _, _)

\* while queue: queue.sort(); node = queue.pop(0); order.append(node); ...
kahn(es, queue, order, in_degree) ==
    IF queue = <<>> THEN order
    ELSE LET sorted == SortSeq(queue, str_lt)
             node == Head(sorted)
             st == kahn_neighbors(adj(es, node), Tail(sorted), in_degree)
         IN kahn(es, st.queue, Append(order, node), st.in_degree)

\* in_degree = {name: 0 for name in languages}; the loop over the edges only
\* calls in_degree.setdefault(edge.target, 0), which leaves the key of a
\* registered name (every edge target is one) at 0
initial_in_degree(langs, es) == [n \in Range(language_names(langs)) |-> 0]

\* the Kahn reduction alone, without the cycle check before it
topological_order_NoCycleCheck(langs, es) ==
    LET in_degree == initial_in_degree(langs, es)
        queue == SelectSeq(language_names(langs), LAMBDA n : in_degree[n] = 0)
        order == kahn(es, queue, <<>>, in_degree)
    IN IF Len(order) # Len(langs) THEN None ELSE PyList(order)

topological_order(langs, es) ==
    IF detect_import_cycles(langs, es) # <<>> THEN None
    ELSE LET in_degree == initial_in_degree(langs, es)
             queue == SelectSeq(language_names(langs), LAMBDA n : in_degree[n] = 0)
             order == kahn(es, queue, <<>>, in_degree)
         IN IF Len(order) # Len(langs) THEN None ELSE PyList(order)

(***************************************************************************)
(* The graph under construction: add_language and add_edge build it, the   *)
(* structural queries read it.                                             *)
(***************************************************************************)
MaxEdges == 3

IdleInteract == rule_a = None /\ rule_b = None /\ diag = NotRun

InitGraph ==
    /\ IdleInteract
    /\ languages = <<>>
    /\ edges = <<>>
    /\ world = [elements |-> <<>>, relations |-> <<>>]
    /\ invoked = <<>>
    /\ call = NoCall
    /\ ret = None

\* a language registered again replaces the one registered before
add_language_Replace(lang) ==
    /\ call' = Call("add_language", <<lang.name>>)
    /\ languages' = IF lang.name \in Range(language_names(languages))
                    THEN [i \in DOMAIN languages |->
                            IF languages[i].name = lang.name THEN lang ELSE languages[i]]
                    ELSE Append(languages, lang)
    /\ ret' = None
    /\ UNCHANGED edges
    /\ UNCHANGED <<interactVars, world, invoked>>

\* the languages offered for registration: one per name, and a second one
\* under the name A that declares an entity
GraphLanguages ==
    { DomainLanguage(n) : n \in LangNames }
        \cup { [DomainLanguage("A") EXCEPT !.entities = {EntityType("Thing")}] }

add_language(lang) ==
    /\ call' = Call("add_language", <<lang.name>>)
    /\ IF lang.name \in Range(language_names(languages))
       THEN /\ ret' = Raised("ValueError")
            /\ UNCHANGED <<languages, edges>>
       ELSE /\ languages' = Append(languages, lang)
            /\ ret' = None
            /\ UNCHANGED edges
    /\ UNCHANGED <<interactVars, world, invoked>>

add_edge(source, target) ==
    /\ call' = Call("add_edge", <<source, target>>)
    /\ IF source \notin Range(language_names(languages))
            \/ target \notin Range(language_names(languages))
       THEN /\ ret' = Raised("ValueError")
            /\ UNCHANGED <<languages, edges>>
       ELSE /\ edges' = Append(edges, DomLGEdge(source, target))
            /\ ret' = DomLGEdge(source, target)
            /\ UNCHANGED languages
    /\ UNCHANGED <<interactVars, world, invoked>>

DetectImportCycles ==
    /\ call' = Call("detect_import_cycles", <<>>)
    /\ ret' = PyList(detect_import_cycles(languages, edges))
    /\ UNCHANGED <<languages, edges>>
    /\ UNCHANGED <<interactVars, world, invoked>>

TopologicalOrder ==
    /\ call' = Call("topological_order", <<>>)
    /\ ret' = topological_order(languages, edges)
    /\ UNCHANGED <<languages, edges>>
    /\ UNCHANGED <<interactVars, world, invoked>>

NextGraph ==
    \/ \E lang \in GraphLanguages : add_language(lang)
    \/ \E s, t \in LangNames : Len(edges) < MaxEdges /\ add_edge(s, t)
    \/ DetectImportCycles
    \/ TopologicalOrder

SpecGraph == InitGraph /\ [][NextGraph]_vars

(***************************************************************************)
(* Claims about the graph, checked under SpecGraph                         *)
(***************************************************************************)
\* the import edges as a relation, and what is reachable along them
EdgePairs == { <<edges[i].source, edges[i].target>> : i \in DOMAIN edges }

RECURSIVE ReachFrom(_, _)

ReachFrom(seen, frontier) ==
    IF frontier \subseteq seen THEN seen
    ELSE ReachFrom(seen \cup frontier,
            { p[2] : p \in { q \in EdgePairs : q[1] \in frontier } })

\* the names reachable from n by one or more edges
Successors(n) == ReachFrom({}, { p[2] : p \in { q \in EdgePairs : q[1] = n } })

Acyclic == \A n \in LangNames : n \notin Successors(n)

Position(q, n) == CHOOSE i \in DOMAIN q : q[i] = n

\* C1: for every acyclic composition graph, topological_order returns a list
\* that contains every registered language exactly once and in which, for
\* every import edge (source, target), source appears before target.
C1_TopologicalOrderRespectsEdges ==
    (call.op = "topological_order" /\ Acyclic)
        => /\ ret.kind = "list"
           /\ Len(ret.v) = Len(languages)
           /\ Range(ret.v) = Range(language_names(languages))
           /\ \A p \in EdgePairs : Position(ret.v, p[1]) < Position(ret.v, p[2])

\* C18: topological_order returns None exactly when the import edges
\* contain a directed cycle, which is when detect_import_cycles reports
\* one, and returns a list for every acyclic graph.
C18_NoneIffCycle ==
    call.op = "topological_order" =>
        /\ ret = None <=> ~Acyclic
        /\ ret = None <=> detect_import_cycles(languages, edges) # <<>>
        /\ Acyclic => ret.kind = "list"

\* a cycle through two languages with a third one outside it: None
C18_Witness ==
    /\ call.op = "topological_order"
    /\ Len(languages) = 3
    /\ \E a, b \in LangNames : a # b /\ <<a, b>> \in EdgePairs /\ <<b, a>> \in EdgePairs
    /\ ret = None

\* a list of names that starts where it ends and follows import edges
IsDirectedCycle(c) ==
    /\ Len(c) >= 2
    /\ c[1] = c[Len(c)]
    /\ \A k \in 1 .. Len(c) - 1 : <<c[k], c[k + 1]>> \in EdgePairs

\* C19: detect_import_cycles returns an empty list exactly when the import
\* edges are acyclic, a self-loop being a cycle, and every list it reports
\* is a directed cycle of the graph: its first and last names are equal and
\* every consecutive pair of names is an import edge.
C19_CyclesReportedAreReal ==
    call.op = "detect_import_cycles" =>
        /\ ret.v = <<>> <=> Acyclic
        /\ \A k \in DOMAIN ret.v : IsDirectedCycle(ret.v[k])

\* a cycle entered from a language outside it: the list reported starts at
\* the language the cycle closes on, not at the root of the traversal
C19_Witness ==
    /\ call.op = "detect_import_cycles"
    /\ Len(ret.v) = 1
    /\ Len(ret.v[1]) = 3
    /\ \E n \in LangNames :
        /\ n \notin Range(ret.v[1])
        /\ \E m \in Range(ret.v[1]) : <<n, m>> \in EdgePairs
        /\ languages[1].name = n

OutDegree(n) == Cardinality({ p \in EdgePairs : p[1] = n })

InDegree(n) == Cardinality({ p \in EdgePairs : p[2] = n })

\* no edge was added twice, and every language has as many edges in as out,
\* and at most one: the edges are simple cycles that share no language
DisjointSimpleCycles ==
    /\ Cardinality(EdgePairs) = Len(edges)
    /\ \A n \in LangNames : OutDegree(n) = InDegree(n) /\ OutDegree(n) <= 1

\* the sets of languages of these cycles
CycleSets == { Successors(n) : n \in { m \in LangNames : OutDegree(m) = 1 } }

\* C20: when the edges form one simple directed cycle through n languages,
\* detect_import_cycles reports exactly one cycle, which names each of the n
\* languages; when they form several cycles that share no language it
\* reports one cycle for each of them.
C20_OneReportPerDisjointCycle ==
    (call.op = "detect_import_cycles" /\ DisjointSimpleCycles) =>
        /\ Len(ret.v) = Cardinality(CycleSets)
        /\ { Range(ret.v[k]) : k \in DOMAIN ret.v } = CycleSets
        /\ \A k \in DOMAIN ret.v : Len(ret.v[k]) = Cardinality(Range(ret.v[k])) + 1

\* a self-loop and a cycle through the two other languages: two reports
C20_Witness ==
    /\ call.op = "detect_import_cycles"
    /\ DisjointSimpleCycles
    /\ \E S, T \in CycleSets : Cardinality(S) = 1 /\ Cardinality(T) = 2
    /\ Len(ret.v) = 2

Registered == Range(language_names(languages))

\* the edges all end at registered languages, and no name is registered twice
GraphWellFormed ==
    /\ \A i \in DOMAIN edges : edges[i].source \in Registered /\ edges[i].target \in Registered
    /\ \A i, j \in DOMAIN languages : languages[i].name = languages[j].name => i = j

\* what a call of add_language or add_edge does to the graph
GraphBuilderStep ==
    /\ call'.op = "add_language" =>
            IF call'.args[1] \in Registered
            THEN ret' = Raised("ValueError") /\ UNCHANGED <<languages, edges>>
            ELSE /\ Len(languages') = Len(languages) + 1
                 /\ SubSeq(languages', 1, Len(languages)) = languages
                 /\ languages'[Len(languages')].name = call'.args[1]
                 /\ UNCHANGED edges
    /\ call'.op = "add_edge" =>
            IF call'.args[1] \notin Registered \/ call'.args[2] \notin Registered
            THEN ret' = Raised("ValueError") /\ UNCHANGED <<languages, edges>>
            ELSE /\ edges' = Append(edges, DomLGEdge(call'.args[1], call'.args[2]))
                 /\ UNCHANGED languages

\* C21: after any sequence of add_language and add_edge calls every edge
\* joins registered languages and each name is that of the language first
\* registered under it: add_language with a registered name and add_edge
\* with an unregistered source or target raise and leave languages and edges
\* as they were; an edge between registered languages is appended even when
\* it closes a cycle or repeats an edge.
C21_GraphBuilderInvariant ==
    [](GraphWellFormed) /\ [][GraphBuilderStep]_vars

\* the edge B -> A was accepted twice after A -> B
C21_Witness ==
    /\ call.op = "add_edge"
    /\ ret.kind = "DomLGEdge"
    /\ Len(edges) = 3
    /\ edges[2] = edges[3]
    /\ edges[1].source = edges[2].target /\ edges[1].target = edges[2].source
    /\ edges[1].source # edges[1].target
    /\ \E i \in DOMAIN languages : languages[i].entities # {}

(***************************************************************************)
(* Closure checking: three registered languages whose imports and rules    *)
(* are declared through the builder API, then checked.                     *)
(***************************************************************************)
MaxImports == 2

MaxClosureRules == 1

Visitor == EntityType("Visitor")

Badge == EntityType("Badge")

Zone == EntityType("Zone")

Ghost == EntityType("Ghost")

Holds == Relation("holds", Visitor, Badge)

\* A declares Visitor and the relation holds, B declares Badge, C declares Zone
ClosureLanguage(n) ==
    [DomainLanguage(n) EXCEPT
        !.entities = CASE n = "A" -> {Visitor} [] n = "B" -> {Badge} [] OTHER -> {Zone},
        !.attributes = IF n = "A" THEN {Attribute("name", Visitor, "str", "required")} ELSE {},
        !.relations = IF n = "A" THEN {Holds} ELSE {}]

Age == Attribute("age", Visitor, "int", "required")

Enter == OperationType("enter")

Knows == Relation("knows", Visitor, Visitor)

\* the elements a rule may be about: the declared ones, an entity type no
\* language declares, and the ones the builder may declare later
ClosureTargets == {Visitor, Badge, Zone, Ghost, Holds, Age, Enter, Knows}

\* the names an import may give: the registered languages and one that is not
ImportNames == LangNames \cup {"Missing"}

total_imports == Cardinality({ <<i, d>> \in (DOMAIN languages) \X { ImportDecl(n) : n \in ImportNames } :
                                d \in languages[i].imports })

RECURSIVE total_rules(_)

total_rules(langs) ==
    IF langs = <<>> THEN 0
    ELSE Len(Head(langs).normative_rules) + total_rules(Tail(langs))

\* the orders in which a set may be iterated
Orderings(S) == { q \in [1 .. Cardinality(S) -> S] : Range(q) = S }

InitClosure ==
    /\ IdleInteract
    /\ languages = [i \in DOMAIN LangNameSeq |-> ClosureLanguage(LangNameSeq[i])]
    /\ edges = <<>>
    /\ world = [elements |-> <<>>, relations |-> <<>>]
    /\ invoked = <<>>
    /\ call = NoCall
    /\ ret = None

\* DomainLanguage.add_attribute: the attribute joins those of its entity
add_attribute(i, entity, name, value_type, optionality) ==
    /\ languages' = [languages EXCEPT
                        ![i].attributes = @ \cup {Attribute(name, entity, value_type, optionality)}]
    /\ call' = Call("add_attribute", <<languages[i].name, name>>)
    /\ ret' = Attribute(name, entity, value_type, optionality)
    /\ UNCHANGED edges
    /\ UNCHANGED <<interactVars, world, invoked>>

\* DomainLanguage.add_operation: operations is a set
add_operation(i, name) ==
    /\ languages' = [languages EXCEPT ![i].operations = @ \cup {OperationType(name)}]
    /\ call' = Call("add_operation", <<languages[i].name, name>>)
    /\ ret' = OperationType(name)
    /\ UNCHANGED edges
    /\ UNCHANGED <<interactVars, world, invoked>>

\* DomainLanguage.add_relation: relations is a set (SemanticWorld has an
\* add_relation of its own, modelled under that name)
DomainLanguage_add_relation(i, name, source, target) ==
    /\ languages' = [languages EXCEPT ![i].relations = @ \cup {Relation(name, source, target)}]
    /\ call' = Call("DomainLanguage.add_relation", <<languages[i].name, name>>)
    /\ ret' = Relation(name, source, target)
    /\ UNCHANGED edges
    /\ UNCHANGED <<interactVars, world, invoked>>

add_import(i, target_name) ==
    /\ languages' = [languages EXCEPT ![i].imports = @ \cup {ImportDecl(target_name)}]
    /\ call' = Call("add_import", <<languages[i].name, target_name>>)
    /\ ret' = ImportDecl(target_name)
    /\ UNCHANGED edges
    /\ UNCHANGED <<interactVars, world, invoked>>

add_normative_rule(i, operator, element, condition, description) ==
    /\ LET rule == NormativeRule(total_rules(languages) + 1, operator,
                        NormativeTarget(element, condition, description), NoRef)
       IN /\ languages' = [languages EXCEPT ![i].normative_rules = Append(@, rule)]
          /\ ret' = rule
    /\ call' = Call("add_normative_rule", <<languages[i].name>>)
    /\ UNCHANGED edges
    /\ UNCHANGED <<interactVars, world, invoked>>

CheckClosure(i, resolved_imports) ==
    /\ \E import_order \in Orderings(languages[i].imports) :
            ret' = PyList(check_closure(languages[i], resolved_imports, import_order))
    /\ call' = Call("check_closure", <<languages[i].name, resolved_imports.kind>>)
    /\ UNCHANGED <<languages, edges>>
    /\ UNCHANGED <<interactVars, world, invoked>>

NextClosure ==
    \/ \E i \in DOMAIN languages, n \in ImportNames :
            /\ ImportDecl(n) \notin languages[i].imports => total_imports < MaxImports
            /\ add_import(i, n)
    \/ \E i \in DOMAIN languages, el \in ClosureTargets :
            /\ total_rules(languages) < MaxClosureRules
            /\ add_normative_rule(i, "MUST", el, None, "")
    \/ \E value_type \in {"None", "int"} :
            add_attribute(1, Visitor, "age", value_type, "required")
    \/ add_operation(2, "enter")
    \/ DomainLanguage_add_relation(1, "knows", Visitor, Visitor)
    \/ \E i \in DOMAIN languages : CheckClosure(i, PyDict(languages))
    \/ \E i \in DOMAIN languages : CheckClosure(i, None)

SpecClosure == InitClosure /\ [][NextClosure]_vars

(***************************************************************************)
(* Claims about check_closure, checked under SpecClosure                   *)
(***************************************************************************)
RECURSIVE reachable_vocab(_, _, _)

\* the vocab() of every language reached from the import names `names`,
\* following the imports of each language reached
reachable_vocab(langs, seen, names) ==
    IF names \subseteq seen THEN {}
    ELSE LET n == CHOOSE x \in names \ seen : TRUE
             l == dict_get(langs, n)
         IN IF l = None
            THEN reachable_vocab(langs, seen \cup {n}, names)
            ELSE vocab(l) \cup reachable_vocab(langs, seen \cup {n},
                    names \cup { d.target_name : d \in l.imports })

CheckedLanguage == dict_get(languages, call.args[1])

IsVocabularyElement(el) == el.kind \in {"EntityType", "Attribute", "OperationType"}

\* C4: check_closure with resolved imports reports an unknown-element error
\* for a normative rule exactly when the rule's target element is in neither
\* the language's local vocabulary nor the vocab() of any language reached
\* through its imports transitively (A imports B, B imports C: a rule of A
\* targeting an element of C is accepted); an import name that does not
\* resolve is reported as a separate 'Unresolved import' error.  Stated for
\* the rules whose target is an entity type, attribute or operation.
C4_ClosureFollowsImportsTransitively ==
    (call.op = "check_closure" /\ call.args[2] = "dict")
        => LET self == CheckedLanguage
               known == vocab(self) \cup reachable_vocab(languages, {},
                            { d.target_name : d \in self.imports })
           IN /\ \A k \in DOMAIN self.normative_rules :
                    IsVocabularyElement(self.normative_rules[k].target.element)
                        => ((\E e \in Range(ret.v) :
                                /\ e.kind = "UnknownElement"
                                /\ e.rule = self.normative_rules[k])
                            <=> self.normative_rules[k].target.element \notin known)
              /\ \A d \in self.imports :
                    (dict_get(languages, d.target_name) = None)
                        <=> (\E e \in Range(ret.v) :
                                /\ e.kind = "UnresolvedImport"
                                /\ e.target_name = d.target_name)

(***************************************************************************)
(* validation.py: the semantic world and the result types                  *)
(***************************************************************************)
\* attribute_values is the set of the (key, value) items of the dict
SemanticElement(et, id, av, prov) ==
    [entity_type |-> et, identity |-> id, attribute_values |-> av, provenance |-> prov]

SemanticRelation(rel, src, tgt, prov) ==
    [relation |-> rel, source_id |-> src, target_id |-> tgt, provenance |-> prov]

\* attribute_values.get(key): the value, None when the key is absent
attr_get(av, key) ==
    IF \E item \in av : item[1] = key
    THEN (CHOOSE item \in av : item[1] = key)[2]
    ELSE None

get_elements_by_type(w, et) == SelectSeq(w.elements, LAMBDA e : e.entity_type = et)

\* the first element with that identity, None when there is none
get_element_by_id(w, id) ==
    IF \E i \in DOMAIN w.elements : w.elements[i].identity = id
    THEN w.elements[CHOOSE i \in DOMAIN w.elements :
            /\ w.elements[i].identity = id
            /\ \A j \in DOMAIN w.elements : w.elements[j].identity = id => i <= j]
    ELSE None

ConditionStatus == {"PASS", "FAIL", "UNKNOWN_PRESENT"}

ConditionResult(num, name, status, details) ==
    [condition_number |-> num, condition_name |-> name, status |-> status,
     details |-> details]

\* only PASS passes
passed_OnlyPass(c) == c.status = "PASS"

passed(c) == c.status \in {"PASS", "UNKNOWN_PRESENT"}

\* a human-readable string: its fixed text and the values formatted into it
Detail(text, about) == [text |-> text, about |-> about]

RECURSIVE Flatten(_)

\* the concatenation of a list of lists
Flatten(ss) == IF ss = <<>> THEN <<>> ELSE Head(ss) \o Flatten(Tail(ss))

\* all(c.passed() for c in conditions)
all_passed(conditions) == \A i \in DOMAIN conditions : passed(conditions[i])

\* any(c.status == UNKNOWN_PRESENT for c in conditions)
has_unknowns(conditions) ==
    \E i \in DOMAIN conditions : conditions[i].status = "UNKNOWN_PRESENT"

AdmissibilityResult(conditions) ==
    [kind |-> "AdmissibilityResult", conditions |-> conditions,
     is_admissible |-> all_passed(conditions),
     has_unknowns |-> has_unknowns(conditions)]

RuleEvaluationResult(violations, advisories, constraint_failures) ==
    [kind |-> "RuleEvaluationResult", violations |-> violations,
     advisories |-> advisories, constraint_failures |-> constraint_failures,
     is_valid |-> Len(violations) = 0 /\ Len(constraint_failures) = 0]

ValidationResult(conditions) ==
    [kind |-> "ValidationResult", conditions |-> conditions,
     is_valid |-> all_passed(conditions),
     has_unknowns |-> has_unknowns(conditions)]

(***************************************************************************)
(* validation.py: conditions 1 to 4                                        *)
(***************************************************************************)
\* the vocabulary of the first language only
composed_vocab_First(langs) == vocab(langs[1])

composed_vocab(langs) == UNION { vocab(langs[i]) : i \in DOMAIN langs }

composed_relations(langs) == UNION { langs[i].relations : i \in DOMAIN langs }

check_vocabulary_closure(langs, w) ==
    LET entity_types == { item \in composed_vocab(langs) : item.kind = "EntityType" }
        composed_rels == composed_relations(langs)
        bad_elems == SelectSeq(w.elements, LAMBDA e : e.entity_type \notin entity_types)
        bad_rels == SelectSeq(w.relations, LAMBDA r : r.relation \notin composed_rels)
        details ==
            [i \in DOMAIN bad_elems |->
                Detail("Entity type not in Vocab(DomLG)",
                       <<bad_elems[i].entity_type.name, bad_elems[i].identity>>)]
            \o [i \in DOMAIN bad_rels |->
                Detail("Relation not declared in any Domain Language",
                       <<bad_rels[i].relation.name>>)]
    IN ConditionResult(1, "Vocabulary Closure",
            IF details # <<>> THEN "FAIL" ELSE "PASS", details)

\* type_to_lang.get(et, set()): the names of the languages declaring et
type_to_lang(langs, et) ==
    { langs[i].name : i \in { j \in DOMAIN langs : et \in langs[j].entities } }

\* only an edge from a source language to a target language counts
has_edge_Forward(es, source_langs, target_langs) ==
    \E i \in DOMAIN es : es[i].source \in source_langs /\ es[i].target \in target_langs

\* the loop over graph.edges looking for an edge between the two sets
has_edge(es, source_langs, target_langs) ==
    \E i \in DOMAIN es :
        \/ es[i].source \in source_langs /\ es[i].target \in target_langs
        \/ es[i].source \in target_langs /\ es[i].target \in source_langs

\* the entity types of the two elements are not compared with the declaration
relation_details_NoTypeCheck(langs, es, w, sem_rel) ==
    LET rel == sem_rel.relation
        source_elem == get_element_by_id(w, sem_rel.source_id)
        target_elem == get_element_by_id(w, sem_rel.target_id)
    IN IF rel \notin composed_relations(langs)
       THEN <<Detail("Relation not declared in any Domain Language", <<rel.name>>)>>
       ELSE IF source_elem = None \/ target_elem = None
       THEN <<Detail("Relation references unknown element(s)",
                     <<rel.name, sem_rel.source_id, sem_rel.target_id>>)>>
       ELSE LET source_langs == type_to_lang(langs, source_elem.entity_type)
                target_langs == type_to_lang(langs, target_elem.entity_type)
            IN IF /\ source_langs # {} /\ target_langs # {}
                  /\ source_langs \cap target_langs = {}
                  /\ ~has_edge(es, source_langs, target_langs)
               THEN <<Detail("Cross-language relation has no DomLG edge", <<rel.name>>)>>
               ELSE <<>>

\* the details one asserted relation adds; any detail sets failed
relation_details(langs, es, w, sem_rel) ==
    LET rel == sem_rel.relation
        source_elem == get_element_by_id(w, sem_rel.source_id)
        target_elem == get_element_by_id(w, sem_rel.target_id)
    IN IF rel \notin composed_relations(langs)
       THEN <<Detail("Relation not declared in any Domain Language", <<rel.name>>)>>
       ELSE IF source_elem = None \/ target_elem = None
       THEN <<Detail("Relation references unknown element(s)",
                     <<rel.name, sem_rel.source_id, sem_rel.target_id>>)>>
       ELSE LET source_langs == type_to_lang(langs, source_elem.entity_type)
                target_langs == type_to_lang(langs, target_elem.entity_type)
            IN (IF source_elem.entity_type # rel.source
                THEN <<Detail("Relation source has unexpected type",
                        <<rel.name, source_elem.identity,
                          source_elem.entity_type.name, rel.source.name>>)>>
                ELSE <<>>)
               \o (IF target_elem.entity_type # rel.target
                   THEN <<Detail("Relation target has unexpected type",
                           <<rel.name, target_elem.identity,
                             target_elem.entity_type.name, rel.target.name>>)>>
                   ELSE <<>>)
               \o (IF /\ source_langs # {} /\ target_langs # {}
                      /\ source_langs \cap target_langs = {}
                      /\ ~has_edge(es, source_langs, target_langs)
                   THEN <<Detail("Cross-language relation has no DomLG edge",
                           <<rel.name>>)>>
                   ELSE <<>>)

check_relation_admissibility(langs, es, w) ==
    LET details == Flatten([i \in DOMAIN w.relations |->
                        relation_details(langs, es, w, w.relations[i])])
    IN ConditionResult(2, "Relation Admissibility",
            IF details # <<>> THEN "FAIL" ELSE "PASS", details)

\* val is None: the key is absent, or the value stored under it is None
is_missing_Falsy(val) == val = None \/ val = PyBool(FALSE)

is_missing(val) == val = None

\* what one MUST rule on an attribute finds on one element of its entity type
attribute_finding(target, e) ==
    LET val == attr_get(e.attribute_values, target.name)
    IN IF is_missing(val)
       THEN <<[kind |-> "failed",
               detail |-> Detail("silently omits required attribute",
                                 <<target.name, e.identity>>)]>>
       ELSE IF val = UNKNOWN
       THEN <<[kind |-> "has_unknowns",
               detail |-> Detail("has UNKNOWN value (explicit gap)",
                                 <<target.name, e.identity>>)]>>
       ELSE <<>>

\* any asserted edge of the relation kind counts, whatever its source
relation_finding_AnySource(w, target, e) ==
    IF \E i \in DOMAIN w.relations : w.relations[i].relation = target
    THEN <<>>
    ELSE <<[kind |-> "failed",
            detail |-> Detail("missing required relation",
                              <<target.name, e.identity>>)]>>

\* what one MUST rule on a relation finds on one element of its source type
relation_finding(w, target, e) ==
    IF \E i \in DOMAIN w.relations :
            /\ w.relations[i].relation = target
            /\ w.relations[i].source_id = e.identity
    THEN <<>>
    ELSE <<[kind |-> "failed",
            detail |-> Detail("missing required relation",
                              <<target.name, e.identity>>)]>>

\* a MUST rule on an attribute declared OPTIONAL is not enforced
must_findings_RequiredOnly(w, rule) ==
    LET target == rule.target.element
    IN IF target.kind = "Attribute" /\ target.optionality # "optional"
       THEN LET elements == get_elements_by_type(w, target.entity)
            IN Flatten([i \in DOMAIN elements |-> attribute_finding(target, elements[i])])
       ELSE IF target.kind = "Relation"
       THEN LET elements == get_elements_by_type(w, target.source)
            IN Flatten([i \in DOMAIN elements |-> relation_finding(w, target, elements[i])])
       ELSE <<>>

\* the findings of one MUST rule, element by element
must_findings(w, rule) ==
    LET target == rule.target.element
    IN IF target.kind = "Attribute"
       THEN LET elements == get_elements_by_type(w, target.entity)
            IN Flatten([i \in DOMAIN elements |-> attribute_finding(target, elements[i])])
       ELSE IF target.kind = "Relation"
       THEN LET elements == get_elements_by_type(w, target.source)
            IN Flatten([i \in DOMAIN elements |-> relation_finding(w, target, elements[i])])
       ELSE <<>>

\* every MUST rule of every language, in order
must_rules(langs) ==
    Flatten([i \in DOMAIN langs |->
        SelectSeq(langs[i].normative_rules, LAMBDA r : r.operator = "MUST")])

check_completeness(langs, w) ==
    LET rules == must_rules(langs)
        findings == Flatten([i \in DOMAIN rules |-> must_findings(w, rules[i])])
        failed == \E i \in DOMAIN findings : findings[i].kind = "failed"
        unknowns == \E i \in DOMAIN findings : findings[i].kind = "has_unknowns"
    IN ConditionResult(3, "Completeness with Explicit Gaps",
            IF failed THEN "FAIL" ELSE IF unknowns THEN "UNKNOWN_PRESENT" ELSE "PASS",
            [i \in DOMAIN findings |-> findings[i].detail])

\* missing provenance fails the condition
check_no_inference_Strict(w) ==
    LET no_prov_e == SelectSeq(w.elements, LAMBDA e : e.provenance = "")
        no_prov_r == SelectSeq(w.relations, LAMBDA r : r.provenance = "")
    IN ConditionResult(4, "No Implicit Inference",
            IF no_prov_e # <<>> \/ no_prov_r # <<>> THEN "FAIL" ELSE "PASS",
            [i \in DOMAIN no_prov_e |->
                Detail("Element has no provenance",
                       <<no_prov_e[i].identity, no_prov_e[i].entity_type.name>>)]
            \o [i \in DOMAIN no_prov_r |->
                Detail("Relation has no provenance",
                       <<no_prov_r[i].relation.name, no_prov_r[i].source_id,
                         no_prov_r[i].target_id>>)])

check_no_inference(w) ==
    LET no_prov_e == SelectSeq(w.elements, LAMBDA e : e.provenance = "")
        no_prov_r == SelectSeq(w.relations, LAMBDA r : r.provenance = "")
    IN ConditionResult(4, "No Implicit Inference", "PASS",
            [i \in DOMAIN no_prov_e |->
                Detail("Element has no provenance",
                       <<no_prov_e[i].identity, no_prov_e[i].entity_type.name>>)]
            \o [i \in DOMAIN no_prov_r |->
                Detail("Relation has no provenance",
                       <<no_prov_r[i].relation.name, no_prov_r[i].source_id,
                         no_prov_r[i].target_id>>)])

check_admissibility(langs, es, w) ==
    AdmissibilityResult(<<check_vocabulary_closure(langs, w),
                          check_relation_admissibility(langs, es, w),
                          check_completeness(langs, w),
                          check_no_inference(w)>>)

(***************************************************************************)
(* validation.py: rule evaluation, condition 5 and validate                *)
(***************************************************************************)
Constraint(name, description, predicate) ==
    [name |-> name, description |-> description, predicate |-> predicate,
     references |-> {}]

\* what calling a condition or predicate on the world gives: its return
\* value, or Raised.  A callable "elements_of" is the list comprehension of
\* the tests: one string per element of a type, `or False`.
call_on_world(c, w) ==
    IF c.outcome.kind = "elements_of"
    THEN LET found == get_elements_by_type(w, c.outcome.entity_type)
         IN IF found = <<>> THEN PyBool(FALSE)
            ELSE PyList([i \in DOMAIN found |-> found[i].identity])
    ELSE c.outcome

\* every list taken for true, the empty one included
truthy_AnyList(value) ==
    \/ value.kind = "bool" /\ value.v
    \/ value.kind = "str" /\ value.v # ""
    \/ value.kind = "list"

\* bool(value) for the values a callable returns
truthy(value) ==
    \/ value.kind = "bool" /\ value.v
    \/ value.kind = "str" /\ value.v # ""
    \/ value.kind = "list" /\ value.v # <<>>

\* target.description or repr(target.element)
desc(target) ==
    IF target.description # "" THEN <<target.description>>
    ELSE <<target.element.kind, target.element.name>>

\* the entries a truthy return value adds: the headline, then one per item
issue_entries(headline, target, value) ==
    <<Detail(headline, desc(target))>>
    \o (IF value.kind = "list"
        THEN [i \in DOMAIN value.v |-> Detail("  -> ", <<value.v[i]>>)]
        ELSE <<>>)

\* what one MUST_NOT rule appends to result.violations
must_not_violations(rule, w) ==
    IF rule.target.condition # None
    THEN LET violation == call_on_world(rule.target.condition, w)
         IN IF violation.kind = "Raised"
            THEN <<Detail("Error evaluating MUST_NOT condition", <<violation.exception>>)>>
            ELSE IF truthy(violation)
            THEN issue_entries("MUST_NOT violation", rule.target, violation)
            ELSE <<>>
    ELSE IF rule.target.element.kind = "EntityType"
    THEN LET elements == get_elements_by_type(w, rule.target.element)
         IN IF elements # <<>>
            THEN <<Detail("MUST_NOT: forbidden entity type found",
                          <<rule.target.element.name, ToString(Len(elements))>>)>>
            ELSE <<>>
    ELSE <<>>

\* what one SHOULD or SHOULD_NOT rule appends to result.advisories; an
\* exception of the condition is passed over (except Exception: pass)
should_advisories(headline, rule, w) ==
    IF rule.target.condition # None
    THEN LET issue == call_on_world(rule.target.condition, w)
         IN IF issue.kind = "Raised" THEN <<>>
            ELSE IF truthy(issue)
            THEN issue_entries(headline, rule.target, issue)
            ELSE <<>>
    ELSE <<>>

\* what one constraint appends to result.constraint_failures
constraint_failure(lang, constraint, w) ==
    LET satisfied == call_on_world(constraint.predicate, w)
    IN IF satisfied.kind = "Raised"
       THEN <<Detail("Error evaluating constraint", <<constraint.name, satisfied.exception>>)>>
       ELSE IF ~truthy(satisfied)
       THEN <<Detail("constraint failed",
                     <<lang.name, constraint.name, constraint.description>>)>>
       ELSE <<>>

rules_of(lang, operator) ==
    SelectSeq(lang.normative_rules, LAMBDA r : r.operator = operator)

language_violations(lang, w) ==
    LET rules == rules_of(lang, "MUST_NOT")
    IN Flatten([i \in DOMAIN rules |-> must_not_violations(rules[i], w)])

language_advisories(lang, w) ==
    LET should == rules_of(lang, "SHOULD")
        should_not == rules_of(lang, "SHOULD_NOT")
    IN Flatten([i \in DOMAIN should |->
                    should_advisories("SHOULD advisory", should[i], w)])
       \o Flatten([i \in DOMAIN should_not |->
                    should_advisories("SHOULD_NOT advisory", should_not[i], w)])

language_constraint_failures(lang, w) ==
    Flatten([i \in DOMAIN lang.constraints |->
                constraint_failure(lang, lang.constraints[i], w)])

\* the callables one language makes evaluate_rules invoke, in order
language_invocations(lang) ==
    LET conditional(op) == SelectSeq(rules_of(lang, op),
                                LAMBDA r : r.target.condition # None)
        conds(op) == [i \in DOMAIN conditional(op) |->
                        [what |-> "condition", of |-> conditional(op)[i].id]]
    IN conds("MUST_NOT") \o conds("SHOULD") \o conds("SHOULD_NOT")
       \o [i \in DOMAIN lang.constraints |->
            [what |-> "predicate", of |-> i]]

evaluate_rules(langs, w) ==
    RuleEvaluationResult(
        Flatten([i \in DOMAIN langs |-> language_violations(langs[i], w)]),
        Flatten([i \in DOMAIN langs |-> language_advisories(langs[i], w)]),
        Flatten([i \in DOMAIN langs |-> language_constraint_failures(langs[i], w)]))

\* every condition and predicate evaluate_rules calls, in call order
evaluate_rules_invocations(langs) ==
    Flatten([i \in DOMAIN langs |-> language_invocations(langs[i])])

\* an advisory fails the condition too
check_consistency_AdvisoriesFail(langs, w) ==
    LET rule_result == evaluate_rules(langs, w)
        cfs == rule_result.constraint_failures
        details == rule_result.violations \o rule_result.advisories
                   \o [i \in DOMAIN cfs |->
                        Detail("Constraint violation: " \o cfs[i].text, cfs[i].about)]
    IN ConditionResult(5, "Consistency",
            IF details # <<>> THEN "FAIL" ELSE "PASS", details)

check_consistency(langs, w) ==
    LET rule_result == evaluate_rules(langs, w)
        cfs == rule_result.constraint_failures
        details == rule_result.violations \o rule_result.advisories
                   \o [i \in DOMAIN cfs |->
                        Detail("Constraint violation: " \o cfs[i].text, cfs[i].about)]
        failed == rule_result.violations # <<>> \/ cfs # <<>>
    IN ConditionResult(5, "Consistency", IF failed THEN "FAIL" ELSE "PASS", details)

\* the rules are evaluated only when the world is admissible
validate_Gated(langs, es, w) ==
    LET adm == check_admissibility(langs, es, w)
    IN ValidationResult(adm.conditions \o
            << IF adm.is_admissible THEN check_consistency(langs, w)
               ELSE ConditionResult(5, "Consistency", "PASS", <<>>) >>)

\* conditions 1-4, then condition 5: _check_consistency is called whatever
\* the first four conditions are
validate(langs, es, w) ==
    ValidationResult(<<check_vocabulary_closure(langs, w),
                       check_relation_admissibility(langs, es, w),
                       check_completeness(langs, w),
                       check_no_inference(w),
                       check_consistency(langs, w)>>)

(***************************************************************************)
(* Operations on a graph and a world: the world is built by add_element    *)
(* and add_relation, the languages by the builder API, and the three       *)
(* entry points read both.                                                 *)
(***************************************************************************)
add_element(entity_type, identity, attribute_values, provenance) ==
    /\ world' = [world EXCEPT !.elements = Append(@,
                    SemanticElement(entity_type, identity, attribute_values, provenance))]
    /\ call' = Call("add_element", <<identity>>)
    /\ ret' = SemanticElement(entity_type, identity, attribute_values, provenance)
    /\ UNCHANGED <<interactVars, languages, edges, invoked>>

add_relation(relation, source_id, target_id, provenance) ==
    /\ world' = [world EXCEPT !.relations = Append(@,
                    SemanticRelation(relation, source_id, target_id, provenance))]
    /\ call' = Call("add_relation", <<source_id, target_id>>)
    /\ ret' = SemanticRelation(relation, source_id, target_id, provenance)
    /\ UNCHANGED <<interactVars, languages, edges, invoked>>

\* DomainLanguage.add_entity: entities is a set
add_entity(i, name) ==
    /\ languages' = [languages EXCEPT ![i].entities = @ \cup {EntityType(name)}]
    /\ call' = Call("add_entity", <<languages[i].name, name>>)
    /\ ret' = EntityType(name)
    /\ UNCHANGED <<interactVars, edges, world, invoked>>

add_constraint(i, name, description, predicate) ==
    /\ languages' = [languages EXCEPT ![i].constraints = Append(@,
                        Constraint(name, description, predicate))]
    /\ call' = Call("add_constraint", <<languages[i].name>>)
    /\ ret' = Constraint(name, description, predicate)
    /\ UNCHANGED <<interactVars, edges, world, invoked>>

CheckAdmissibility ==
    /\ call' = Call("check_admissibility", <<>>)
    /\ ret' = check_admissibility(languages, edges, world)
    /\ invoked' = <<>>
    /\ UNCHANGED <<interactVars, languages, edges, world>>

EvaluateRules ==
    /\ call' = Call("evaluate_rules", <<>>)
    /\ ret' = evaluate_rules(languages, world)
    /\ invoked' = evaluate_rules_invocations(languages)
    /\ UNCHANGED <<interactVars, languages, edges, world>>

Validate ==
    /\ call' = Call("validate", <<>>)
    /\ ret' = validate(languages, edges, world)
    /\ invoked' = evaluate_rules_invocations(languages)
    /\ UNCHANGED <<interactVars, languages, edges, world>>

(***************************************************************************)
(* Completeness: the language of the tests' _simple_domain with its MUST   *)
(* rule on verified, further rules on the attribute added by the builder,  *)
(* and worlds whose elements carry no value, None, UNKNOWN, False or True. *)
(***************************************************************************)
MaxMustRules == 2

MaxWorldElements == 2

Person == EntityType("Person")

Item == EntityType("Item")

Verified == Attribute("verified", Person, "bool", "required")

\* the language _simple_domain builds: its entities, attributes and
\* relation, and the rule lang.must(verified, ...) adds, the first rule
\* object created
TestDomain ==
    [DomainLanguage("TestDomain") EXCEPT
        !.entities = {Person, Item},
        !.attributes = {Attribute("name", Person, "str", "required"), Verified,
                        Attribute("label", Item, "str", "required")},
        !.normative_rules =
            << NormativeRule(1, "MUST",
                    NormativeTarget(Verified, None, "Person must be verified"), NoRef) >>,
        !.relations = {Relation("owns", Person, Item)}]

\* the attribute_values dicts of the elements
VerifiedValues ==
    {{}, {<<"verified", None>>}, {<<"verified", UNKNOWN>>},
     {<<"verified", PyBool(FALSE)>>}, {<<"verified", PyBool(TRUE)>>}}

InitCompleteness ==
    /\ IdleInteract
    /\ languages = <<TestDomain>>
    /\ edges = <<>>
    /\ world = [elements |-> <<>>, relations |-> <<>>]
    /\ invoked = <<>>
    /\ call = NoCall
    /\ ret = None

NextCompleteness ==
    \/ \E operator \in {"MUST", "SHOULD"}, condition \in {None, Callable(PyBool(TRUE))} :
            /\ total_rules(languages) < MaxMustRules
            /\ add_normative_rule(1, operator, Verified, condition, "")
    \/ \E entity_type \in {Person, Item}, identity \in {"p1", "p2"},
          attribute_values \in VerifiedValues :
            /\ Len(world.elements) < MaxWorldElements
            /\ add_element(entity_type, identity, attribute_values, "input")
    \/ CheckAdmissibility
    \/ Validate

SpecCompleteness == InitCompleteness /\ [][NextCompleteness]_vars

(***************************************************************************)
(* Completeness: the claims                                                *)
(***************************************************************************)
\* the elements a MUST rule on an attribute is checked on
MustAttributeRules ==
    { r \in Range(must_rules(languages)) : r.target.element.kind = "Attribute" }

Instances(r) == Range(get_elements_by_type(world, r.target.element.entity))

\* the element's dict has the key
Carries(e, r) == \E item \in e.attribute_values : item[1] = r.target.element.name

ValueOf(e, r) == (CHOOSE item \in e.attribute_values : item[1] = r.target.element.name)[2]

\* the element carries no value: no key, or Python's None under the key
Absent(e, r) == ~Carries(e, r) \/ ValueOf(e, r) = None

CompletenessChecked == call.op \in {"check_admissibility", "validate"}

CompletenessStatus == ret.conditions[3].status

\* C10: completeness of a MUST rule on an attribute tells three outcomes
\* apart.  An instance of the owning entity type that carries no value for
\* the attribute (the key is not there, or None is stored under it) makes
\* the condition FAIL; UNKNOWN never makes it FAIL and makes it
\* UNKNOWN_PRESENT when no instance fails; any other value, the boolean
\* false included, leaves it PASS.
C10_CompletenessThreeOutcomes ==
    CompletenessChecked =>
        /\ (\E r \in MustAttributeRules : \E e \in Instances(r) : Absent(e, r))
                => CompletenessStatus = "FAIL"
        /\ (\A r \in MustAttributeRules : \A e \in Instances(r) : ~Absent(e, r))
                => IF \E r \in MustAttributeRules : \E e \in Instances(r) :
                            ValueOf(e, r) = UNKNOWN
                   THEN CompletenessStatus = "UNKNOWN_PRESENT"
                   ELSE CompletenessStatus = "PASS"

\* one instance holds False and another UNKNOWN under a MUST rule: the
\* condition is UNKNOWN_PRESENT
C10_Witness ==
    /\ CompletenessChecked
    /\ \E r \in MustAttributeRules :
        /\ \E e \in Instances(r) : Carries(e, r) /\ ValueOf(e, r) = PyBool(FALSE)
        /\ \E e \in Instances(r) : Carries(e, r) /\ ValueOf(e, r) = UNKNOWN
    /\ CompletenessStatus = "UNKNOWN_PRESENT"

\* the statuses of the conditions of the result returned last
Statuses == { ret.conditions[n].status : n \in DOMAIN ret.conditions }

\* C12: UNKNOWN_PRESENT is a passing status.  is_admissible of
\* check_admissibility and is_valid of validate are true exactly when no
\* condition has status FAIL, and has_unknowns is true exactly when some
\* condition has status UNKNOWN_PRESENT; a world whose only completeness
\* findings are explicit UNKNOWN values stays admissible and valid.
C12_UnknownPresentPasses ==
    /\ call.op = "check_admissibility" =>
            /\ ret.is_admissible <=> "FAIL" \notin Statuses
            /\ ret.has_unknowns <=> "UNKNOWN_PRESENT" \in Statuses
    /\ call.op = "validate" =>
            /\ ret.is_valid <=> "FAIL" \notin Statuses
            /\ ret.has_unknowns <=> "UNKNOWN_PRESENT" \in Statuses

\* a Person whose verified is UNKNOWN under the MUST rule: validate gives
\* UNKNOWN_PRESENT for completeness and the world is valid
C12_Witness ==
    /\ call.op = "validate"
    /\ \E r \in MustAttributeRules : \E e \in Instances(r) :
            Carries(e, r) /\ ValueOf(e, r) = UNKNOWN
    /\ CompletenessStatus = "UNKNOWN_PRESENT"
    /\ ret.is_valid
    /\ ret.has_unknowns

(***************************************************************************)
(* Rule evaluation: two languages, rules and constraints added by the      *)
(* builder whose callables return False, return the elements of a type,    *)
(* or raise, and worlds of declared and undeclared entity types.           *)
(***************************************************************************)
MaxEvalRules == 2

MaxEvalElements == 1

Thing == EntityType("Thing")

Gadget == EntityType("Gadget")

\* an entity type no language declares
Alien == EntityType("Alien")

EvalLanguage(n) ==
    [DomainLanguage(n) EXCEPT !.entities = IF n = "A" THEN {Thing} ELSE {Gadget}]

RuntimeError == Raised("RuntimeError")

\* no condition, one that returns the Thing elements of the world or False
\* when there is none, and one that raises
EvalConditions ==
    {None,
     Callable([kind |-> "elements_of", entity_type |-> Thing]),
     Callable(RuntimeError)}

EvalPredicates == {Callable(PyBool(TRUE)), Callable(PyBool(FALSE)), Callable(RuntimeError)}

RECURSIVE total_constraints(_)

total_constraints(langs) ==
    IF langs = <<>> THEN 0
    ELSE Len(Head(langs).constraints) + total_constraints(Tail(langs))

InitValidate ==
    /\ IdleInteract
    /\ languages = <<EvalLanguage("A"), EvalLanguage("B")>>
    /\ edges = <<>>
    /\ world = [elements |-> <<>>, relations |-> <<>>]
    /\ invoked = <<>>
    /\ call = NoCall
    /\ ret = None

NextValidate ==
    \/ \E i \in DOMAIN languages, operator \in {"MUST_NOT", "SHOULD", "SHOULD_NOT"},
          condition \in EvalConditions :
            /\ total_rules(languages) + total_constraints(languages) < MaxEvalRules
            /\ add_normative_rule(i, operator, Thing, condition, "")
    \/ \E i \in DOMAIN languages, predicate \in EvalPredicates :
            /\ total_rules(languages) + total_constraints(languages) < MaxEvalRules
            /\ add_constraint(i, "inv", "", predicate)
    \/ \E entity_type \in {Thing, Alien} :
            /\ Len(world.elements) < MaxEvalElements
            /\ add_element(entity_type, "t1", {}, "input")
    \/ CheckAdmissibility
    \/ EvaluateRules
    \/ Validate

SpecValidate == InitValidate /\ [][NextValidate]_vars

(***************************************************************************)
(* Rule evaluation: the claims                                             *)
(***************************************************************************)
\* C2: validate runs the evaluator only when admissibility passed: when one
\* of conditions 1 to 4 is FAIL, no rule condition and no constraint
\* predicate is invoked on the world.
C2_EvaluatorGatedOnAdmissibility ==
    (call.op = "validate" /\ \E n \in 1..4 : ret.conditions[n].status = "FAIL")
        => invoked = <<>>

\* the rules whose condition evaluate_rules calls, and the constraints
EvaluatedRules ==
    { r \in UNION { Range(languages[i].normative_rules) : i \in DOMAIN languages } :
        /\ r.operator \in {"MUST_NOT", "SHOULD", "SHOULD_NOT"}
        /\ r.target.condition # None }

EvaluatedConstraints ==
    { <<i, k>> \in (DOMAIN languages) \X (1..MaxEvalRules + 1) :
        k \in DOMAIN languages[i].constraints }

\* how many of the callables raise
RaisingCallables ==
    Cardinality({ r \in EvaluatedRules : r.target.condition.outcome = RuntimeError })
    + Cardinality({ c \in EvaluatedConstraints :
                        languages[c[1]].constraints[c[2]].predicate.outcome = RuntimeError })

\* the strings of a list that report the error raised
ErrorReports(entries) ==
    { i \in DOMAIN entries :
        \E k \in DOMAIN entries[i].about : entries[i].about[k] = RuntimeError.exception }

\* C3: when a condition of a MUST_NOT, SHOULD or SHOULD_NOT rule or a
\* predicate of a constraint raises, evaluate_rules does not raise, every
\* condition and predicate of every language is still called, and each error
\* raised is reported as one string of the result.
C3_ErrorsReportedNotPropagated ==
    call.op = "evaluate_rules" =>
        /\ ret.kind = "RuleEvaluationResult"
        /\ Len(invoked) = Cardinality(EvaluatedRules) + Cardinality(EvaluatedConstraints)
        /\ Cardinality(ErrorReports(ret.violations))
            + Cardinality(ErrorReports(ret.advisories))
            + Cardinality(ErrorReports(ret.constraint_failures)) = RaisingCallables

\* what a callable of the menus does on the world: it raises, or returns
\* something true
Raises(c) == c.outcome.kind = "Raised"

ReturnsTrue(c) ==
    \/ c.outcome.kind = "bool" /\ c.outcome.v
    \/ /\ c.outcome.kind = "elements_of"
       /\ \E i \in DOMAIN world.elements :
            world.elements[i].entity_type = c.outcome.entity_type

AllRules == UNION { Range(languages[i].normative_rules) : i \in DOMAIN languages }

\* a MUST_NOT rule is violated, or its condition raises
MustNotHit ==
    \E r \in AllRules :
        /\ r.operator = "MUST_NOT"
        /\ IF r.target.condition # None
           THEN Raises(r.target.condition) \/ ReturnsTrue(r.target.condition)
           ELSE /\ r.target.element.kind = "EntityType"
                /\ \E i \in DOMAIN world.elements :
                        world.elements[i].entity_type = r.target.element

\* a constraint is not satisfied, or its predicate raises
ConstraintHit ==
    \E c \in EvaluatedConstraints :
        LET predicate == languages[c[1]].constraints[c[2]].predicate
        IN Raises(predicate) \/ ~ReturnsTrue(predicate)

\* a SHOULD or SHOULD_NOT rule whose condition returns something true
AdvisoryHit ==
    \E r \in AllRules :
        /\ r.operator \in {"SHOULD", "SHOULD_NOT"}
        /\ r.target.condition # None
        /\ ReturnsTrue(r.target.condition)

\* C17: SHOULD and SHOULD_NOT rules never affect pass or fail.  is_valid of
\* evaluate_rules is true exactly when the lists of violations and of
\* constraint failures are empty, which is when no MUST_NOT rule and no
\* constraint is hit; the Consistency condition is FAIL exactly in the
\* opposite case; what SHOULD and SHOULD_NOT conditions return only adds
\* advisories.
C17_ShouldIsAdvisoryOnly ==
    /\ call.op = "evaluate_rules" =>
            /\ ret.is_valid <=> (ret.violations = <<>> /\ ret.constraint_failures = <<>>)
            /\ ret.is_valid <=> ~(MustNotHit \/ ConstraintHit)
            /\ AdvisoryHit <=> ret.advisories # <<>>
    /\ call.op = "validate" =>
            (ret.conditions[5].status = "FAIL" <=> (MustNotHit \/ ConstraintHit))

\* a SHOULD condition returns the elements it objects to and nothing else is
\* hit: Consistency carries the advisory and is PASS
C17_Witness ==
    /\ call.op = "validate"
    /\ AdvisoryHit
    /\ ~(MustNotHit \/ ConstraintHit)
    /\ ret.conditions[5].details # <<>>
    /\ ret.conditions[5].status = "PASS"

(***************************************************************************)
(* Relations: language A declares Person and the relation owns from Person *)
(* to Item, language B declares Item.  A may declare Item too; import      *)
(* edges and a MUST rule on owns are added by the builders, elements and   *)
(* owns edges are asserted in the world.                                   *)
(***************************************************************************)
\* import edges and rules declared in the graph
MaxRelDecls == 1

MaxRelElements == 2

MaxRelAsserted == 1

Owns == Relation("owns", Person, Item)

RelLanguage(n) ==
    [DomainLanguage(n) EXCEPT
        !.entities = IF n = "A" THEN {Person} ELSE {Item},
        !.relations = IF n = "A" THEN {Owns} ELSE {}]

RelLangNames == {"A", "B"}

RelIds == {"p1", "i1"}

InitRelations ==
    /\ IdleInteract
    /\ languages = <<RelLanguage("A"), RelLanguage("B")>>
    /\ edges = <<>>
    /\ world = [elements |-> <<>>, relations |-> <<>>]
    /\ invoked = <<>>
    /\ call = NoCall
    /\ ret = None

\* an owns edge is asserted in the declared direction or in the reverse one
NextRelations ==
    \/ add_entity(1, "Item")
    \/ \E s, t \in RelLangNames :
            /\ Len(edges) + total_rules(languages) < MaxRelDecls
            /\ add_edge(s, t)
    \/ /\ Len(edges) + total_rules(languages) < MaxRelDecls
       /\ add_normative_rule(1, "MUST", Owns, None, "")
    \/ \E entity_type \in {Person, Item}, identity \in RelIds :
            /\ Len(world.elements) < MaxRelElements
            /\ add_element(entity_type, identity, {}, "input")
    \/ \E ends \in {<<"p1", "i1">>, <<"i1", "p1">>} :
            /\ Len(world.relations) < MaxRelAsserted
            /\ add_relation(Owns, ends[1], ends[2], "input")
    \/ CheckAdmissibility
    \/ Validate

SpecRelations == InitRelations /\ [][NextRelations]_vars

(***************************************************************************)
(* Relations: completeness of MUST rules on relations                      *)
(***************************************************************************)
MustRelationRules ==
    { r \in Range(must_rules(languages)) : r.target.element.kind = "Relation" }

\* the elements of the relation's declared source entity type
SourceInstances(r) == Range(get_elements_by_type(world, r.target.element.source))

\* some asserted edge of the rule's relation kind leaves the element
HasOutgoing(e, r) ==
    \E i \in DOMAIN world.relations :
        /\ world.relations[i].relation = r.target.element
        /\ world.relations[i].source_id = e.identity

\* C11: completeness of a MUST rule on a relation.  The condition is FAIL
\* whenever some instance of the relation's declared source entity type has
\* no asserted outgoing edge of that relation kind; when every instance of
\* the source type has such an edge the rule causes no failure.
C11_MustRelationCompleteness ==
    CompletenessChecked =>
        /\ (\E r \in MustRelationRules : \E e \in SourceInstances(r) : ~HasOutgoing(e, r))
                => CompletenessStatus = "FAIL"
        /\ (\A r \in MustRelationRules : \A e \in SourceInstances(r) : HasOutgoing(e, r))
                => CompletenessStatus # "FAIL"

\* a Person with an owns edge under the MUST rule: the condition passes
C11_Witness ==
    /\ CompletenessChecked
    /\ MustRelationRules # {}
    /\ \E r \in MustRelationRules :
        /\ SourceInstances(r) # {}
        /\ \A e \in SourceInstances(r) : HasOutgoing(e, r)
    /\ CompletenessStatus = "PASS"

(***************************************************************************)
(* Relations: condition 2                                                  *)
(***************************************************************************)
ConditionsChecked == call.op \in {"check_admissibility", "validate"}

DeclaredRelation(rel) == \E i \in DOMAIN languages : rel \in languages[i].relations

Names(id) == \E i \in DOMAIN world.elements : world.elements[i].identity = id

\* the element an identity names: the first one added under it
Named(id) ==
    world.elements[CHOOSE i \in DOMAIN world.elements :
        /\ world.elements[i].identity = id
        /\ \A j \in 1 .. i - 1 : world.elements[j].identity # id]

Asserted == Range(world.relations)

Dangling(r) == ~Names(r.source_id) \/ ~Names(r.target_id)

Mistyped(r) ==
    \/ Named(r.source_id).entity_type # r.relation.source
    \/ Named(r.target_id).entity_type # r.relation.target

\* C14: Relation Admissibility is FAIL whenever the source or target
\* identity of an asserted relation names no element of the world, or the
\* entity type of the source element differs from the declared source type
\* of the relation, or that of the target element from the declared target
\* type; an edge asserted in the reverse direction of a relation between two
\* different entity types fails.
C14_RelationEndpointsAndTypes ==
    ConditionsChecked =>
        ((\E r \in Asserted : Dangling(r) \/ Mistyped(r))
            => ret.conditions[2].status = "FAIL")

\* a Person p1 and an Item i1 with owns asserted from i1 to p1: FAIL
C14_Witness ==
    /\ ConditionsChecked
    /\ \E r \in Asserted :
        /\ ~Dangling(r)
        /\ Named(r.source_id).entity_type = r.relation.target
        /\ Named(r.target_id).entity_type = r.relation.source
        /\ r.relation.source # r.relation.target
    /\ ret.conditions[2].status = "FAIL"

\* the names of the languages that declare an entity type
Declaring(et) == { languages[i].name : i \in { j \in DOMAIN languages : et \in languages[j].entities } }

Joined(S, T) ==
    \E p \in EdgePairs : (p[1] \in S /\ p[2] \in T) \/ (p[1] \in T /\ p[2] \in S)

\* the two elements are declared by disjoint, non-empty sets of languages
\* that no edge joins
Unjoined(r) ==
    LET S == Declaring(Named(r.source_id).entity_type)
        T == Declaring(Named(r.target_id).entity_type)
    IN S # {} /\ T # {} /\ S \cap T = {} /\ ~Joined(S, T)

\* C15: when the sets of languages declaring the entity types of the source
\* and of the target element are non-empty and disjoint, the relation fails
\* unless an edge of the graph joins a language of one set to a language of
\* the other, in either direction; when the sets share a language no edge
\* is needed, so a world whose declared relations have both elements, of the
\* declared types, and are joined or share a language, passes.
C15_CrossLanguageNeedsEdge ==
    ConditionsChecked =>
        /\ (\E r \in Asserted : ~Dangling(r) /\ Unjoined(r))
                => ret.conditions[2].status = "FAIL"
        /\ (\A r \in Asserted :
                /\ DeclaredRelation(r.relation)
                /\ ~Dangling(r) /\ ~Mistyped(r) /\ ~Unjoined(r))
                => ret.conditions[2].status = "PASS"

\* owns from a Person of A to an Item of B, joined only by the edge B -> A
C15_Witness ==
    /\ ConditionsChecked
    /\ EdgePairs = {<<"B", "A">>}
    /\ \E r \in Asserted :
        /\ ~Dangling(r) /\ ~Mistyped(r)
        /\ Declaring(Named(r.source_id).entity_type) = {"A"}
        /\ Declaring(Named(r.target_id).entity_type) = {"B"}
    /\ ret.conditions[2].status = "PASS"

(***************************************************************************)
(* Vocabulary and provenance: the languages A and B above, import edges,   *)
(* and worlds whose elements may be of an undeclared entity type, whose    *)
(* asserted relations may be of an undeclared kind, and whose provenance   *)
(* may be empty.                                                           *)
(***************************************************************************)
MaxVocabEdges == 1

MaxVocabElements == 2

MaxVocabAsserted == 1

\* a relation kind no language declares
Likes == Relation("likes", Person, Person)

InitVocabulary ==
    /\ IdleInteract
    /\ languages = <<RelLanguage("A"), RelLanguage("B")>>
    /\ edges = <<>>
    /\ world = [elements |-> <<>>, relations |-> <<>>]
    /\ invoked = <<>>
    /\ call = NoCall
    /\ ret = None

NextVocabulary ==
    \/ \E s, t \in RelLangNames : Len(edges) < MaxVocabEdges /\ add_edge(s, t)
    \/ \E entity_type \in {Person, Item, Alien}, provenance \in {"", "input"} :
            /\ Len(world.elements) < MaxVocabElements
            /\ add_element(entity_type, "e1", {}, provenance)
    \/ \E relation \in {Owns, Likes}, provenance \in {"", "input"} :
            /\ Len(world.relations) < MaxVocabAsserted
            /\ add_relation(relation, "e1", "e1", provenance)
    \/ CheckAdmissibility
    \/ Validate

SpecVocabulary == InitVocabulary /\ [][NextVocabulary]_vars

(***************************************************************************)
(* Vocabulary and provenance: conditions 1 and 4                           *)
(***************************************************************************)
\* declared by some language of the graph
DeclaredEntity(et) == \E i \in DOMAIN languages : et \in languages[i].entities

UndeclaredInWorld ==
    \/ \E i \in DOMAIN world.elements : ~DeclaredEntity(world.elements[i].entity_type)
    \/ \E i \in DOMAIN world.relations : ~DeclaredRelation(world.relations[i].relation)

\* C13: Vocabulary Closure is FAIL exactly when the entity type of some
\* world element, or the relation kind of some asserted relation, is
\* declared by no language of the graph, and PASS otherwise; the import
\* edges of the graph play no part.
C13_VocabularyClosure ==
    ConditionsChecked =>
        ret.conditions[1].status = IF UndeclaredInWorld THEN "FAIL" ELSE "PASS"

\* elements of Person and of Item, declared by different languages that no
\* edge joins: the condition is PASS
C13_Witness ==
    /\ ConditionsChecked
    /\ edges = <<>>
    /\ \E i, j \in DOMAIN world.elements :
        /\ world.elements[i].entity_type = Person
        /\ world.elements[j].entity_type = Item
    /\ ret.conditions[1].status = "PASS"

\* how many entries of a list have an empty provenance
RECURSIVE NoProvenance(_)

NoProvenance(q) ==
    IF q = <<>> THEN 0
    ELSE (IF Head(q).provenance = "" THEN 1 ELSE 0) + NoProvenance(Tail(q))

\* C16: condition 4 is PASS for every world, never FAIL or UNKNOWN_PRESENT,
\* and has exactly one detail string for each element and each relation
\* whose provenance is empty.
C16_TraceabilityAlwaysPasses ==
    ConditionsChecked =>
        /\ ret.conditions[4].status = "PASS"
        /\ Len(ret.conditions[4].details)
            = NoProvenance(world.elements) + NoProvenance(world.relations)

\* an element and a relation without provenance: two details, still PASS
C16_Witness ==
    /\ ConditionsChecked
    /\ NoProvenance(world.elements) > 0
    /\ NoProvenance(world.relations) > 0
    /\ Len(ret.conditions[4].details) >= 2
    /\ ret.conditions[4].status = "PASS"

(***************************************************************************)
(* domain_language_graph.py: check_cross_references                        *)
(***************************************************************************)
\* an edge in either direction makes the two names reachable from each other
reachable_Undirected(langs, es) ==
    [n \in Range(language_names(langs)) |->
        { es[k].target : k \in { k \in DOMAIN es : es[k].source = n } }
            \cup { es[k].source : k \in { k \in DOMAIN es : es[k].target = n } }]

\* reachable[name] = the targets of the edges that leave name
reachable(langs, es) ==
    [n \in Range(language_names(langs)) |->
        { es[k].target : k \in { k \in DOMAIN es : es[k].source = n } }]

\* the two messages of check_cross_references
not_in_graph(lang_name, target_name) ==
    [kind |-> "which is not in the graph", language |-> lang_name,
     target_name |-> target_name]

no_edge_exists(lang_name, target_name) ==
    [kind |-> "but no edge exists in the graph", language |-> lang_name,
     target_name |-> target_name]

\* the errors of one language; imps is lang.imports in the order the set is
\* iterated
import_errors(langs, es, lang, imps) ==
    LET names == Range(language_names(langs))
        bad == SelectSeq(imps, LAMBDA imp :
                    \/ imp.target_name \notin names
                    \/ imp.target_name \notin reachable(langs, es)[lang.name])
    IN [k \in DOMAIN bad |->
            IF bad[k].target_name \notin names
            THEN not_in_graph(lang.name, bad[k].target_name)
            ELSE no_edge_exists(lang.name, bad[k].target_name)]

\* import_orders[i] is the order in which langs[i].imports is iterated
check_cross_references(langs, es, import_orders) ==
    Flatten([i \in DOMAIN langs |-> import_errors(langs, es, langs[i], import_orders[i])])

\* the orders in which the import sets of the languages may be iterated
ImportOrders(langs) ==
    { o \in [DOMAIN langs -> UNION { Orderings(langs[i].imports) : i \in DOMAIN langs }] :
        \A i \in DOMAIN langs : o[i] \in Orderings(langs[i].imports) }

(***************************************************************************)
(* Languages that declare imports in a graph that declares edges           *)
(***************************************************************************)
MaxRefImports == 2

MaxRefEdges == 2

InitCrossRef ==
    /\ IdleInteract
    /\ languages = [i \in DOMAIN LangNameSeq |-> ClosureLanguage(LangNameSeq[i])]
    /\ edges = <<>>
    /\ world = [elements |-> <<>>, relations |-> <<>>]
    /\ invoked = <<>>
    /\ call = NoCall
    /\ ret = None

CheckCrossReferences ==
    /\ \E import_orders \in ImportOrders(languages) :
            ret' = PyList(check_cross_references(languages, edges, import_orders))
    /\ call' = Call("check_cross_references", <<>>)
    /\ UNCHANGED <<languages, edges>>
    /\ UNCHANGED <<interactVars, world, invoked>>

\* the languages that declare imports: A and B
Importing == {1, 2}

NextCrossRef ==
    \/ \E i \in Importing, n \in ImportNames :
            /\ ImportDecl(n) \notin languages[i].imports => total_imports < MaxRefImports
            /\ add_import(i, n)
    \/ \E s, t \in LangNames : Len(edges) < MaxRefEdges /\ add_edge(s, t)
    \/ CheckCrossReferences

SpecCrossRef == InitCrossRef /\ [][NextCrossRef]_vars

(***************************************************************************)
(* Claims about check_cross_references, checked under SpecCrossRef         *)
(***************************************************************************)
CrossReferencesChecked == call.op = "check_cross_references"

\* the declared imports, as pairs <<importing language, imported name>>
DeclaredImports ==
    { <<languages[i].name, d.target_name>> :
        <<i, d>> \in { p \in (DOMAIN languages) \X { ImportDecl(n) : n \in ImportNames } :
                        p[2] \in languages[p[1]].imports } }

DirectEdge(a, b) == \E k \in DOMAIN edges : edges[k].source = a /\ edges[k].target = b

\* the errors reported about the import of name b by language a
ErrorsAbout(a, b) ==
    { k \in DOMAIN ret.v : ret.v[k].language = a /\ ret.v[k].target_name = b }

\* C22: check_cross_references reports an error for the import of name b by
\* language a exactly when b is not registered or no direct edge a -> b
\* exists; an unregistered name gets the message "not in the graph", a
\* missing edge the message "no edge exists"; nothing is reported about a
\* pair that is not a declared import, so the list is empty when every
\* import has its node and its edge.
C22_CrossReferenceErrors ==
    CrossReferencesChecked =>
        /\ \A p \in DeclaredImports :
            /\ Cardinality(ErrorsAbout(p[1], p[2]))
                = IF p[2] \notin Registered \/ ~DirectEdge(p[1], p[2]) THEN 1 ELSE 0
            /\ \A k \in ErrorsAbout(p[1], p[2]) :
                ret.v[k] = IF p[2] \notin Registered
                           THEN not_in_graph(p[1], p[2])
                           ELSE no_edge_exists(p[1], p[2])
        /\ \A k \in DOMAIN ret.v :
                <<ret.v[k].language, ret.v[k].target_name>> \in DeclaredImports
        /\ not_in_graph("A", "B") # no_edge_exists("A", "B")

\* A imports C with the path A -> B -> C but no edge A -> C, and imports a
\* name that is not registered: one error of each kind
C22_Witness ==
    /\ CrossReferencesChecked
    /\ <<"A", "C">> \in DeclaredImports
    /\ <<"A", "Missing">> \in DeclaredImports
    /\ DirectEdge("A", "B") /\ DirectEdge("B", "C") /\ ~DirectEdge("A", "C")
    /\ Range(ret.v) = {no_edge_exists("A", "C"), not_in_graph("A", "Missing")}

(***************************************************************************)
(* normative.py: check_all_interactions                                    *)
(***************************************************************************)
\* for i in range(n): for j in range(i + 1, n): the diagnostics that are
\* not None, in the order of the two loops
check_all_interactions(rules) ==
    LET n == Len(rules)
        rows == [i \in 1 .. n |->
                    [k \in 1 .. (n - i) |-> check_interaction(rules[i], rules[i + k])]]
    IN SelectSeq(Flatten(rows), LAMBDA d : d # None)

\* DomainLanguage.check_normative_interactions
check_normative_interactions(self) == check_all_interactions(self.normative_rules)

(***************************************************************************)
(* One language whose rule list grows and is checked pairwise              *)
(***************************************************************************)
MaxListedRules == 3

ListedOps == {"MUST", "MUST_NOT"}

ListedConditions == {None, Callable(PyBool(TRUE))}

ListedDescriptions == {"", "note"}

InitAllInteractions ==
    /\ IdleInteract
    /\ languages = << [DomainLanguage("A") EXCEPT
                        !.entities = {EntityType("Thing")},
                        !.attributes = InteractElements \ {EntityType("Thing")}] >>
    /\ edges = <<>>
    /\ world = [elements |-> <<>>, relations |-> <<>>]
    /\ invoked = <<>>
    /\ call = NoCall
    /\ ret = None

CheckNormativeInteractions(i) ==
    /\ ret' = PyList(check_normative_interactions(languages[i]))
    /\ call' = Call("check_normative_interactions", <<languages[i].name>>)
    /\ UNCHANGED <<languages, edges>>
    /\ UNCHANGED <<interactVars, world, invoked>>

NextAllInteractions ==
    \/ \E op \in ListedOps, el \in InteractElements, c \in ListedConditions,
          d \in ListedDescriptions :
            /\ total_rules(languages) < MaxListedRules
            /\ add_normative_rule(1, op, el, c, d)
    \/ CheckNormativeInteractions(1)

SpecAllInteractions == InitAllInteractions /\ [][NextAllInteractions]_vars

(***************************************************************************)
(* Claims about check_all_interactions, checked under SpecAllInteractions  *)
(***************************************************************************)
AllInteractionsChecked == call.op = "check_normative_interactions"

ListedRules == languages[1].normative_rules

\* the pairs of list positions i < j whose rules have equal target elements
SharingPairs ==
    { p \in (DOMAIN ListedRules) \X (DOMAIN ListedRules) :
        /\ p[1] < p[2]
        /\ ListedRules[p[1]].target.element = ListedRules[p[2]].target.element }

\* how many sharing pairs come before p in increasing (i, j) order
PairRank(p) ==
    Cardinality({ q \in SharingPairs : q[1] < p[1] \/ (q[1] = p[1] /\ q[2] < p[2]) })

\* C26: check_all_interactions returns one finding for each pair of list
\* positions i < j whose rules have equal target elements and nothing else,
\* in increasing (i, j) order: the k-th finding is about the k-th such pair.
\* Conditions and descriptions do not enter SharingPairs, and a list of
\* fewer than two rules has no pair, hence no finding.
C26_OneFindingPerSharingPair ==
    AllInteractionsChecked =>
        /\ Len(ret.v) = Cardinality(SharingPairs)
        /\ \A p \in SharingPairs :
            LET d == ret.v[PairRank(p) + 1]
            IN /\ d.kind = "InteractionDiagnostic"
               /\ {d.rule_a, d.rule_b} = {ListedRules[p[1]], ListedRules[p[2]]}
        /\ (Len(ListedRules) <= 1 => ret.v = <<>>)

\* three rules: the first and the third share an element but differ in
\* condition and description, the second is about another element
C26_Witness ==
    /\ AllInteractionsChecked
    /\ Len(ListedRules) = 3
    /\ ListedRules[1].target.element = ListedRules[3].target.element
    /\ ListedRules[1].target.condition # ListedRules[3].target.condition
    /\ ListedRules[1].target.description # ListedRules[3].target.description
    /\ ListedRules[2].target.element # ListedRules[1].target.element
    /\ Len(ret.v) = 1
    /\ {ret.v[1].rule_a.id, ret.v[1].rule_b.id} = {1, 3}

(***************************************************************************)
(* domain_language_graph.py: structural_validation;                        *)
(* validation.py: self_validate                                            *)
(***************************************************************************)
import_cycle_detected(cycle) == [kind |-> "Import cycle detected", cycle |-> cycle]

structural_validation(langs, es, import_orders) ==
    LET cycles == detect_import_cycles(langs, es)
    IN [k \in DOMAIN cycles |-> import_cycle_detected(cycles[k])]
        \o check_cross_references(langs, es, import_orders)

SelfValidationResult(errors, warnings) ==
    [kind |-> "SelfValidationResult", errors |-> errors, warnings |-> warnings]

\* SelfValidationResult.is_valid
self_is_valid(result) == Len(result.errors) = 0

\* f"[{lang.name}] {diag.message}"
interaction_message(lang, d) ==
    [kind |-> "interaction", language |-> lang.name, message |-> d.message]

\* f"[{lang.name}] {e}" for a closure error e
closure_message(lang, e) == [kind |-> "closure", language |-> lang.name, error |-> e]

orphaned_language(name) == [kind |-> "Orphaned language", name |-> name]

\* step 2 with every severity taken for an error
interaction_messages_AllErrors(lang, to_errors) ==
    LET diags == check_normative_interactions(lang)
        kept == SelectSeq(diags, LAMBDA d : to_errors)
    IN [k \in DOMAIN kept |-> interaction_message(lang, kept[k])]

\* step 2 for one language: the messages that go to errors (to_errors) or
\* to warnings
interaction_messages(lang, to_errors) ==
    LET diags == check_normative_interactions(lang)
        kept == SelectSeq(diags, LAMBDA d : (d.severity = "ERROR") = to_errors)
    IN [k \in DOMAIN kept |-> interaction_message(lang, kept[k])]

\* step 4: the languages without an edge in either direction
orphans(langs, es) ==
    LET names == language_names(langs)
        imported_by == [n \in Range(names) |->
                            { es[k].source : k \in { k \in DOMAIN es : es[k].target = n } }]
        lone == SelectSeq(names, LAMBDA n :
                    /\ ~(\E k \in DOMAIN es : es[k].source = n)
                    /\ imported_by[n] = {})
    IN IF Len(langs) > 1
       THEN [k \in DOMAIN lone |-> orphaned_language(lone[k])]
       ELSE <<>>

\* import_orders[i] is the order in which langs[i].imports is iterated
self_validate(langs, es, import_orders) ==
    LET structural_errors == structural_validation(langs, es, import_orders)
        interaction_errors ==
            Flatten([i \in DOMAIN langs |-> interaction_messages(langs[i], TRUE)])
        interaction_warnings ==
            Flatten([i \in DOMAIN langs |-> interaction_messages(langs[i], FALSE)])
        closure_errors ==
            Flatten([i \in DOMAIN langs |->
                LET es_i == check_closure(langs[i], PyDict(langs), import_orders[i])
                IN [k \in DOMAIN es_i |-> closure_message(langs[i], es_i[k])]])
    IN SelfValidationResult(
            structural_errors \o interaction_errors \o closure_errors,
            interaction_warnings \o orphans(langs, es))

(***************************************************************************)
(* A domain definition of two languages, validated as it is written        *)
(***************************************************************************)
MaxQCImports == 1

MaxQCEdges == 2

MaxQCRules == 2

QCNames == {"A", "B"}

InitSelfQC ==
    /\ IdleInteract
    /\ languages = <<ClosureLanguage("A"), ClosureLanguage("B")>>
    /\ edges = <<>>
    /\ world = [elements |-> <<>>, relations |-> <<>>]
    /\ invoked = <<>>
    /\ call = NoCall
    /\ ret = None

SelfValidate ==
    /\ \E import_orders \in ImportOrders(languages) :
            ret' = self_validate(languages, edges, import_orders)
    /\ call' = Call("self_validate", <<>>)
    /\ UNCHANGED <<languages, edges>>
    /\ UNCHANGED <<interactVars, world, invoked>>

NextSelfQC ==
    \/ \E i \in DOMAIN languages, n \in {"A", "Missing"} :
            /\ ImportDecl(n) \notin languages[i].imports => total_imports < MaxQCImports
            /\ add_import(i, n)
    \/ \E s, t \in QCNames : Len(edges) < MaxQCEdges /\ add_edge(s, t)
    \/ \E op \in ListedOps, c \in ListedConditions :
            /\ total_rules(languages) < MaxQCRules
            /\ add_normative_rule(1, op, Visitor, c, "")
    \/ /\ total_rules(languages) < MaxQCRules
       /\ add_normative_rule(2, "MUST", Visitor, None, "")
    \/ SelfValidate

SpecSelfQC == InitSelfQC /\ [][NextSelfQC]_vars

(***************************************************************************)
(* Claims about self_validate, checked under SpecSelfQC                    *)
(***************************************************************************)
SelfValidated == call.op = "self_validate"

HasImportCycle == \E n \in Registered : n \in Successors(n)

HasUnresolvedImport ==
    \E p \in DeclaredImports : p[2] \notin Registered \/ ~DirectEdge(p[1], p[2])

\* the finding types of the pairs of rules of language i
FindingsIn(i) ==
    { d.finding_type : d \in Range(check_normative_interactions(languages[i])) }

HasConflict == \E i \in DOMAIN languages : "CONFLICT" \in FindingsIn(i)

HasClosureError ==
    \E i \in DOMAIN languages :
        \E import_order \in Orderings(languages[i].imports) :
            check_closure(languages[i], PyDict(languages), import_order) # <<>>

IsOrphan(n) ==
    /\ Len(languages) > 1
    /\ ~(\E k \in DOMAIN edges : edges[k].source = n \/ edges[k].target = n)

\* C23: self_validate is invalid exactly when the graph has an import cycle,
\* a declared import without its node or its edge, a CONFLICT finding inside
\* a language, or a closure error.  A finding of another type and an
\* orphaned language are in warnings and never in errors.
C23_SelfValidationErrors ==
    SelfValidated =>
        /\ ~self_is_valid(ret)
            <=> (HasImportCycle \/ HasUnresolvedImport \/ HasConflict \/ HasClosureError)
        /\ \A k \in DOMAIN ret.errors :
            /\ ret.errors[k].kind # "Orphaned language"
            /\ ret.errors[k].kind = "interaction" => ret.errors[k].message[1] = "Conflict"
        /\ \A i \in DOMAIN languages :
            \A f \in FindingsIn(i) \ {"CONFLICT"} :
                \E k \in DOMAIN ret.warnings :
                    /\ ret.warnings[k].kind = "interaction"
                    /\ ret.warnings[k].language = languages[i].name
        /\ \A n \in Registered :
            IsOrphan(n) <=> orphaned_language(n) \in Range(ret.warnings)

\* two conditional rules of A that oppose each other and no edge at all: an
\* AMBIGUITY and two orphans in warnings, and the definition is valid
C23_Witness ==
    /\ SelfValidated
    /\ "AMBIGUITY" \in FindingsIn(1)
    /\ IsOrphan("A") /\ IsOrphan("B")
    /\ Len(ret.warnings) = 3
    /\ self_is_valid(ret)

(***************************************************************************)
(* Claims about the composition of the layers, checked under SpecValidate  *)
(***************************************************************************)
Validated == call.op = "validate"

\* what the two layers return on the graph and the world validate was given
LayerTwo == check_admissibility(languages, edges, world)

LayerThree == evaluate_rules(languages, world)

\* C24: validate returns five conditions numbered 1 to 5; the first four
\* are the four conditions of check_admissibility (number, name, status and
\* details); the fifth is named Consistency, fails exactly when
\* evaluate_rules is not valid and has one detail per violation, advisory
\* and constraint failure; is_valid is is_admissible and evaluate_rules'
\* is_valid.
C24_ValidateComposesLayers ==
    Validated =>
        /\ Len(ret.conditions) = 5
        /\ \A i \in 1 .. 5 : ret.conditions[i].condition_number = i
        /\ \A i \in 1 .. 4 : ret.conditions[i] = LayerTwo.conditions[i]
        /\ ret.conditions[5].condition_name = "Consistency"
        /\ ret.conditions[5].status = IF LayerThree.is_valid THEN "PASS" ELSE "FAIL"
        /\ Len(ret.conditions[5].details)
            = Len(LayerThree.violations) + Len(LayerThree.advisories)
                + Len(LayerThree.constraint_failures)
        /\ ret.is_valid = (LayerTwo.is_admissible /\ LayerThree.is_valid)

\* a world that is not admissible and breaks a MUST_NOT rule: condition 1
\* and condition 5 both fail
C24_Witness ==
    /\ Validated
    /\ ~LayerTwo.is_admissible
    /\ LayerThree.violations # <<>>
    /\ ret.conditions[1].status = "FAIL"
    /\ ret.conditions[5].status = "FAIL"
    /\ ~ret.is_valid

(***************************************************************************)
(* Worlds whose lists are read in every order.  add_element appends        *)
(* without looking at the identities already in the world, so two elements *)
(* of one world may carry the same identity.                               *)
(***************************************************************************)
MaxOrderElements == 3

MaxOrderAsserted == 1

InitReorder ==
    /\ IdleInteract
    /\ languages = <<TestDomain>>
    /\ edges = <<>>
    /\ world = [elements |-> <<>>, relations |-> <<>>]
    /\ invoked = <<>>
    /\ call = NoCall
    /\ ret = None

NextReorder ==
    \/ \E entity_type \in {Person, Item}, identity \in RelIds :
            /\ Len(world.elements) < MaxOrderElements
            /\ add_element(entity_type, identity, {}, "input")
    \/ /\ Len(world.relations) < MaxOrderAsserted
       /\ add_relation(Owns, "p1", "i1", "input")
    \/ CheckAdmissibility
    \/ Validate

SpecReorder == InitReorder /\ [][NextReorder]_vars

\* the reorderings of a list
Reorderings(q) ==
    { [i \in DOMAIN q |-> q[f[i]]] :
        f \in { g \in [DOMAIN q -> DOMAIN q] : \A i, j \in DOMAIN q : g[i] = g[j] => i = j } }

\* the worlds that hold the elements and relations of the world in some order
ReorderedWorlds ==
    { [elements |-> es, relations |-> rs] :
        es \in Reorderings(world.elements), rs \in Reorderings(world.relations) }

StatusList(result) == [n \in DOMAIN result.conditions |-> result.conditions[n].status]

\* C25: the statuses check_admissibility and validate return for a world are
\* the statuses they return for every reordering of its elements list and
\* its relations list, the graph being the same.
C25_OrderIrrelevant ==
    /\ call.op = "check_admissibility" =>
        \A w \in ReorderedWorlds :
            StatusList(check_admissibility(languages, edges, w)) = StatusList(ret)
    /\ call.op = "validate" =>
        \A w \in ReorderedWorlds :
            StatusList(validate(languages, edges, w)) = StatusList(ret)

\* the same statement for the worlds in which no identity occurs twice
UniqueIdentities ==
    \A i, j \in DOMAIN world.elements :
        world.elements[i].identity = world.elements[j].identity => i = j

OrderIrrelevantUnderUniqueIdentities == UniqueIdentities => C25_OrderIrrelevant

(***************************************************************************)
(* MUST_NOT rules of one language, with conditions that return True,       *)
(* False, a string, an empty list, a list of findings, or raise            *)
(***************************************************************************)
MaxMustNotRules == 2

MaxMustNotElements == 2

MustNotConditions ==
    {None, Callable(PyBool(TRUE)), Callable(PyBool(FALSE)), Callable(PyList(<<>>)),
     Callable(PyStr("x")), Callable(PyStr("")),
     Callable([kind |-> "elements_of", entity_type |-> Thing]),
     Callable(RuntimeError)}

MustNotTargets == {Thing, Attribute("x", Thing, "bool", "required")}

InitMustNot ==
    /\ IdleInteract
    /\ languages = << [DomainLanguage("A") EXCEPT
                        !.entities = {Thing, Gadget},
                        !.attributes = {Attribute("x", Thing, "bool", "required")}] >>
    /\ edges = <<>>
    /\ world = [elements |-> <<>>, relations |-> <<>>]
    /\ invoked = <<>>
    /\ call = NoCall
    /\ ret = None

NextMustNot ==
    \/ \E el \in MustNotTargets, condition \in MustNotConditions :
            /\ total_rules(languages) < MaxMustNotRules
            /\ add_normative_rule(1, "MUST_NOT", el, condition, "")
    \/ \E entity_type \in {Thing, Gadget} :
            /\ Len(world.elements) < MaxMustNotElements
            /\ add_element(entity_type, "t1", {}, "input")
    \/ EvaluateRules

SpecMustNot == InitMustNot /\ [][NextMustNot]_vars

(***************************************************************************)
(* Claims about MUST_NOT evaluation, checked under SpecMustNot             *)
(***************************************************************************)
RulesEvaluated == call.op = "evaluate_rules"

MustNotRules == SelectSeq(languages[1].normative_rules, LAMBDA r : r.operator = "MUST_NOT")

\* the rules whose condition returns a value, and that value
Returning ==
    { i \in DOMAIN MustNotRules :
        /\ MustNotRules[i].target.condition # None
        /\ call_on_world(MustNotRules[i].target.condition, world).kind # "Raised" }

Returned(i) == call_on_world(MustNotRules[i].target.condition, world)

\* True, a non-empty string and a non-empty list
IsTruthy(v) ==
    \/ v.kind = "bool" /\ v.v = TRUE
    \/ v.kind = "str" /\ v.v = "x"
    \/ v.kind = "list" /\ Len(v.v) > 0

RECURSIVE ItemsReturned(_)

\* the items of the non-empty lists the conditions of the rules in S return
ItemsReturned(S) ==
    IF S = {} THEN 0
    ELSE LET i == CHOOSE x \in S : TRUE
         IN (IF Returned(i).kind = "list" THEN Len(Returned(i).v) ELSE 0)
                + ItemsReturned(S \ {i})

\* the rules without a condition on an entity type the world has an instance of
ForbiddenPresent ==
    { i \in DOMAIN MustNotRules :
        /\ MustNotRules[i].target.condition = None
        /\ MustNotRules[i].target.element.kind = "EntityType"
        /\ \E k \in DOMAIN world.elements :
                world.elements[k].entity_type = MustNotRules[i].target.element }

EntriesWith(text) == { k \in DOMAIN ret.violations : ret.violations[k].text = text }

\* C27: a MUST_NOT rule whose condition returns a value adds a violation
\* exactly when the value is truthy, and a returned list adds one more entry
\* for each of its items; False and the empty list add nothing.  A MUST_NOT
\* rule without a condition adds a violation exactly when its target is an
\* entity type of which the world holds an instance.  Whenever violations is
\* not empty, evaluate_rules is not valid.
C27_MustNotViolations ==
    RulesEvaluated =>
        /\ Cardinality(EntriesWith("MUST_NOT violation"))
            = Cardinality({ i \in Returning : IsTruthy(Returned(i)) })
        /\ Cardinality(EntriesWith("  -> ")) = ItemsReturned(Returning)
        /\ Cardinality(EntriesWith("MUST_NOT: forbidden entity type found"))
            = Cardinality(ForbiddenPresent)
        /\ (ret.violations # <<>> => ~ret.is_valid)
        /\ ((Returning = DOMAIN MustNotRules /\ ret.is_valid)
                => \A i \in Returning : ~IsTruthy(Returned(i)))

\* two rules on a world with two Things: one condition returns the list of
\* the two findings, the other the empty list; headline and two items
C27_Witness ==
    /\ RulesEvaluated
    /\ Len(MustNotRules) = 2
    /\ Returning = {1, 2}
    /\ \E i \in Returning : Returned(i) = PyList(<<>>)
    /\ \E i \in Returning : Returned(i).kind = "list" /\ Len(Returned(i).v) = 2
    /\ Len(ret.violations) = 3
    /\ ~ret.is_valid

(***************************************************************************)
(* Completeness against the optionality of the attribute and the condition *)
(* of the rule: the domain of the tests with verified declared in each     *)
(* optionality mode, and rules with and without a condition                *)
(***************************************************************************)
MaxOptRules == 2

MaxOptElements == 2

VerifiedAs(opt) == Attribute("verified", Person, "bool", opt)

\* _simple_domain with verified declared as opt: the rule of the fixture is
\* on the attribute as declared
OptDomain(opt) ==
    [TestDomain EXCEPT
        !.attributes = (@ \ {Verified}) \cup {VerifiedAs(opt)},
        !.normative_rules[1].target.element = VerifiedAs(opt)]

OptConditions ==
    {None, Callable(PyBool(TRUE)), Callable(PyBool(FALSE)), Callable(RuntimeError)}

OptValues == {{}, {<<"verified", UNKNOWN>>}, {<<"verified", PyBool(TRUE)>>}}

InitOptionality ==
    /\ IdleInteract
    /\ languages \in { <<OptDomain(opt)>> : opt \in Optionality }
    /\ edges = <<>>
    /\ world = [elements |-> <<>>, relations |-> <<>>]
    /\ invoked = <<>>
    /\ call = NoCall
    /\ ret = None

NextOptionality ==
    \/ \E operator \in {"MUST", "SHOULD"}, condition \in OptConditions,
          target \in { a \in languages[1].attributes : a.name = "verified" } :
            /\ total_rules(languages) < MaxOptRules
            /\ add_normative_rule(1, operator, target, condition, "")
    \/ \E entity_type \in {Person, Item}, attribute_values \in OptValues :
            /\ Len(world.elements) < MaxOptElements
            /\ add_element(entity_type, "p1", attribute_values, "input")
    \/ CheckAdmissibility
    \/ Validate

SpecOptionality == InitOptionality /\ [][NextOptionality]_vars

(***************************************************************************)
(* Claims about optionality and conditions, checked under SpecOptionality  *)
(***************************************************************************)
\* the languages with verified declared as opt and every rule on it given
\* the condition cond
Revised(opt, cond) ==
    [i \in DOMAIN languages |->
        [languages[i] EXCEPT
            !.attributes = { IF a.name = "verified" THEN VerifiedAs(opt) ELSE a : a \in @ },
            !.normative_rules =
                [k \in DOMAIN @ |->
                    IF @[k].target.element.kind = "Attribute"
                    THEN [@[k] EXCEPT !.target.element.optionality = opt,
                                      !.target.condition = cond]
                    ELSE @[k]]]]

\* the conditions a call has invoked that belong to a MUST rule
MustConditionsInvoked ==
    { k \in DOMAIN invoked :
        /\ invoked[k].what = "condition"
        /\ \E r \in Range(must_rules(languages)) : r.id = invoked[k].of }

\* C30: the Completeness status is the same whatever the optionality mode of
\* the attribute and whatever the condition of the MUST rule.  The condition
\* of a MUST rule is never invoked; an instance without a value fails the
\* condition even under a conditional rule on an OPTIONAL attribute; without
\* such an instance an explicit UNKNOWN gives UNKNOWN_PRESENT, never FAIL,
\* even when the attribute is REQUIRED.
C30_CompletenessIgnoresOptionalityAndCondition ==
    CompletenessChecked =>
        /\ \A opt \in Optionality, cond \in OptConditions :
            check_completeness(Revised(opt, cond), world).status = CompletenessStatus
        /\ MustConditionsInvoked = {}
        /\ (\E r \in MustAttributeRules : \E e \in Instances(r) : Absent(e, r))
                => CompletenessStatus = "FAIL"
        /\ (/\ \A r \in MustAttributeRules : \A e \in Instances(r) : ~Absent(e, r)
            /\ \E r \in MustAttributeRules : \E e \in Instances(r) : ValueOf(e, r) = UNKNOWN)
                => CompletenessStatus = "UNKNOWN_PRESENT"

\* a conditional MUST rule, whose condition returns False, on the attribute
\* declared OPTIONAL, and a Person without the value: FAIL
C30_Witness ==
    /\ CompletenessChecked
    /\ \E r \in MustAttributeRules :
        /\ r.target.element.optionality = "optional"
        /\ r.target.condition = Callable(PyBool(FALSE))
        /\ \E e \in Instances(r) : Absent(e, r)
    /\ CompletenessStatus = "FAIL"

====
